---- MODULE Spec2Model ----
(***************************************************************************)
(* Model of the transcription workers of Qwen3-ASR-Desktop                 *)
(* (src/gui/worker_thread.py): BatchTranscriptionWorker and                *)
(* TranscriptionWorker, the thread pool they dispatch segments to, the     *)
(* temp workspace on disk and the signals they emit.                       *)
(*                                                                         *)
(* The run thread of a worker is a program counter `pc`; cancel() is the   *)
(* GUI thread and may interleave anywhere; the pool's worker threads start *)
(* and finish transcription calls on their own.                            *)
(*                                                                         *)
(* A second part models MainWindow and FileTableWidget                     *)
(* (src/gui/main_window.py): the file table, the buttons, the workers the  *)
(* window starts and the signals queued to its slots.                      *)
(***************************************************************************)
EXTENDS Integers, Sequences, FiniteSets, TLC

\* ---------------------------------------------------------------- bounds
MaxFiles == 2
MaxSegs == 2
MaxThreads == 2
MaxTextLen == 2
\* GUI: paths per dialog or drop, workers started, signals queued to the GUI
MaxPaths == 2
MaxWorkers == 2
MaxInbox == 2

\* ------------------------------------------------------- input universes
\* The transcript the service returns for segment idx of a file
Digits == << "0", "1", "2", "3", "4", "5", "6", "7", "8", "9" >>
SegText(idx) == "t" \o Digits[idx + 1]
Languages == {"en", "fr"}
\* Decoded durations in seconds, on both sides of the segmentation threshold
Durations == {179, 180}
\* Input paths: two files that share a basename-without-extension (in
\* different folders) and one that does not.
Paths ==
  { [dir |-> "a", stem |-> "x", ext |-> "mp3"],
    [dir |-> "b", stem |-> "x", ext |-> "mp3"],
    [dir |-> "a", stem |-> "y", ext |-> "mp3"] }

VARIABLES
  kind,          \* "batch": BatchTranscriptionWorker, "single": TranscriptionWorker
  input_files,   \* self.input_files (single: the one input_file)
  has_key,       \* api_key non-empty or DASHSCOPE_API_KEY in the environment
  num_threads,   \* self.num_threads
  save_srt,      \* self.save_srt
  is_cancelled,  \* self._is_cancelled
  pc,            \* position of the run thread
  file_idx,      \* run(): loop variable
  exc,           \* exception in flight on the run thread
  duration,      \* len(wav) / WAV_SAMPLE_RATE of the current file (0: not loaded)
  wav_list,      \* segments (start, end) of the current file
  staged,        \* len(wav_path_list)
  futures,       \* future_dict: one future per submitted segment
  nthreads,      \* threads the executor has spawned
  first_batch,   \* as_completed: futures finished when iteration began
  waiter,        \* as_completed: futures finished since, in completion order
  seg_results,   \* _transcribe_segments: results
  languages,     \* _transcribe_segments: languages
  completed,     \* _transcribe_segments: completed
  out,           \* assembled full_text, language, segments
  results,       \* run(): results
  events,        \* every signal emitted, in order
  dirs,          \* workspace directories that exist under tmp_dir
  fs,            \* staged segment files
  outputs,       \* .txt/.srt files written
  decoded,       \* files load_audio was called for
  ws_created,    \* files whose staging created a workspace directory
  called,        \* <<file, segment>> pairs the transcription client was invoked for
  seg_failed,    \* <<file, segment>> pairs whose transcription call raised
  cancel_at,     \* the file run() was in when cancel() was first called (-1: none yet)
  cancel_pc,     \* the phase the run thread was in when cancel() was first called
  files,         \* FileTableWidget._files: path and status of each row
  state_stack,   \* MainWindow.state_stack: 0 shows the drop zone, 1 the file table
  transcribe_btn,  \* Start Transcription is enabled
  add_btn,       \* Add Files is enabled
  add_folder_btn,  \* Add Folder is enabled
  clear_btn,     \* Clear All is enabled
  cancel_btn,    \* the Stop button is visible
  progress_bar,  \* the progress bar is visible
  worker,        \* MainWindow.worker (0: None)
  batch_worker,  \* MainWindow.batch_worker (0: None, else the worker it refers to)
  workers,       \* the BatchTranscriptionWorker threads MainWindow has started
  inbox,         \* signals queued to the GUI thread, not yet delivered to a slot
  last_handled   \* what the GUI thread did last: the signal it handled, or a user action

vars ==
  << kind, input_files, has_key, num_threads, save_srt, is_cancelled, pc,
     file_idx, exc, duration, wav_list, staged, futures, nthreads, first_batch, waiter,
     seg_results, languages, completed, out, results, events, dirs, fs,
     outputs, decoded, ws_created, called, seg_failed, cancel_at, cancel_pc,
     files, state_stack, transcribe_btn, add_btn, add_folder_btn, clear_btn,
     cancel_btn, progress_bar, worker, batch_worker, workers, inbox,
     last_handled >>

config == << kind, input_files, has_key, num_threads, save_srt >>
locals ==
  << duration, wav_list, staged, futures, nthreads, first_batch, waiter, seg_results,
     languages, completed, out >>
pool == << futures, nthreads, first_batch, waiter >>
drainv == << seg_results, languages, completed >>
disk == << dirs, fs, outputs >>
hist == << decoded, ws_created, called, seg_failed >>
ghost == << cancel_at, cancel_pc >>
buttons == << transcribe_btn, add_btn, add_folder_btn, clear_btn, cancel_btn,
             progress_bar >>
gui == << files, state_stack, buttons, worker, batch_worker, workers, inbox,
         last_handled >>

\* ------------------------------------------------------------- helpers
NoExc == [type |-> "None", seg |-> -1]
Raise(t) == [type |-> t, seg |-> -1]
SegError(idx) == [type |-> "RemoteError", seg |-> idx]
Cancelled == Raise("InterruptedError")

NoOut == [full_text |-> "", language |-> "", segments |-> <<>>]

total_files == Len(input_files)
input_file == input_files[file_idx + 1]
\* os.path.splitext(os.path.basename(input_file))[0] under tmp_dir
save_dir == input_file.stem
\* os.path.basename(input_file)
wav_name == << input_file.stem, input_file.ext >>

NoDupSeqs(S, n) ==
  { s \in [1..n -> S] : \A i, j \in 1..n : i # j => s[i] # s[j] }

Settled == {"done", "failed", "cancelled"}
Running == { k \in 1..Len(futures) : futures[k].st = "running" }
Queued == { k \in 1..Len(futures) : futures[k].st = "queued" }
AllSettled == \A k \in 1..Len(futures) : futures[k].st \in Settled

FileProgress(pct) == [sig |-> "file_progress", idx |-> file_idx, pct |-> pct]

\* A percent that is not scaled by the number of segments
ProgressPctUnscaled(c, total) == 25 + (c * 70)

\* 25 + int((completed / total_segments) * 70)
ProgressPct(c, total) == 25 + ((c * 70) \div total)

\* results.sort(key=lambda x: x[0]): a stable sort on the segment index
InsertByIdx(x, s) ==
  LET before == { i \in 1..Len(s) : s[i][1] <= x[1] }
      n == Cardinality(before)
  IN  SubSeq(s, 1, n) \o << x >> \o SubSeq(s, n + 1, Len(s))

\* The results left in the order the drain loop appended them
NoSort(s) == s

RECURSIVE SortByIdx(_)
SortByIdx(s) ==
  IF s = << >> THEN << >>
  ELSE InsertByIdx(s[Len(s)], SortByIdx(SubSeq(s, 1, Len(s) - 1)))

\* " ".join(text for _, text in results)
RECURSIVE JoinTexts(_)
JoinTexts(s) ==
  IF s = << >> THEN ""
  ELSE IF Len(s) = 1 THEN s[1][2]
  ELSE s[1][2] \o " " \o JoinTexts(Tail(s))

Count(l, s) == Cardinality({ i \in 1..Len(s) : s[i] = l })
FirstAt(l, s) == CHOOSE i \in 1..Len(s) : s[i] = l /\ \A j \in 1..(i - 1) : s[j] # l

\* Counter(languages).most_common(1)[0][0] if languages else "Unknown":
\* the first-inserted label among those with the highest count
MostCommon(s) ==
  IF s = << >> THEN "Unknown"
  ELSE LET labels == { s[i] : i \in 1..Len(s) }
           best == { l \in labels : \A m \in labels : Count(m, s) <= Count(l, s) }
       IN  CHOOSE l \in best : \A m \in best : FirstAt(l, s) <= FirstAt(m, s)

\* for idx, (_, text) in enumerate(results): segments.append({...wav_list[idx]...})
BuildSegments(res, wl) ==
  [ p \in 1..Len(res) |->
      [index |-> p - 1, start |-> wl[p][1], end |-> wl[p][2], text |-> res[p][2]] ]

\* shutil.rmtree(save_dir) if it exists
RmTree(d) ==
  /\ dirs' = dirs \ {d}
  /\ fs' = { f \in fs : f.dir # d }

ResetLocals ==
  /\ duration' = 0
  /\ wav_list' = << >>
  /\ staged' = 0
  /\ futures' = << >>
  /\ nthreads' = 0
  /\ first_batch' = {}
  /\ waiter' = << >>
  /\ seg_results' = << >>
  /\ languages' = << >>
  /\ completed' = 0
  /\ out' = NoOut

NumStarted == Cardinality({ i \in 1..Len(events) : events[i].sig = "file_started" })

\* The signal-free state of the GUI thread
NoSignal == [sig |-> "none", w |-> 0, idx |-> -1]

\* MainWindow.__init__ and _setup_ui: no file, the drop zone shown, Start
\* disabled, Stop and the progress bar hidden, no worker
GuiConstructed ==
  /\ files = << >>
  /\ state_stack = 0
  /\ transcribe_btn = FALSE
  /\ add_btn = TRUE
  /\ add_folder_btn = TRUE
  /\ clear_btn = TRUE
  /\ cancel_btn = FALSE
  /\ progress_bar = FALSE
  /\ worker = 0
  /\ batch_worker = 0
  /\ workers = << >>
  /\ inbox = << >>
  /\ last_handled = NoSignal

\* ---------------------------------------------------------------- Init
Init ==
  /\ kind \in {"batch", "single"}
  /\ \E n \in 0..MaxFiles : input_files \in NoDupSeqs(Paths, n)
  /\ kind = "single" => Len(input_files) = 1
  /\ has_key \in BOOLEAN
  /\ num_threads \in 1..MaxThreads
  /\ save_srt \in BOOLEAN
  /\ is_cancelled = FALSE
  /\ pc = IF kind = "batch" THEN "loop" ELSE "tw_key"
  /\ file_idx = 0
  /\ exc = NoExc
  /\ duration = 0
  /\ wav_list = << >>
  /\ staged = 0
  /\ futures = << >>
  /\ nthreads = 0
  /\ first_batch = {}
  /\ waiter = << >>
  /\ seg_results = << >>
  /\ languages = << >>
  /\ completed = 0
  /\ out = NoOut
  /\ results = << >>
  /\ events = << >>
  /\ dirs = {}
  /\ fs = {}
  /\ outputs = {}
  /\ decoded = {}
  /\ ws_created = {}
  /\ called = {}
  /\ seg_failed = {}
  /\ cancel_at = -1
  /\ cancel_pc = ""
  /\ GuiConstructed

\* ------------------------------------------------------------- cancel()
\* The file run() has entered last: the loop has passed its cancellation check
CurrentFile == IF pc \in {"loop", "finish", "done"} THEN file_idx - 1 ELSE file_idx

\* The phases of the run thread between which the cancellation flag is read
Phase(at) ==
  IF at \in {"loop", "finish", "done", "tw_done"} THEN "idle"
  ELSE IF at = "started" THEN "starting"
  ELSE IF at \in {"key", "cp_before_decode", "load", "cp_after_decode", "segment",
                   "cp_after_segment", "stage", "cp_before_dispatch",
                   "tw_key", "tw_cp_before_decode", "tw_load", "tw_cp_after_decode",
                   "tw_segment", "tw_cp_after_segment", "tw_stage",
                   "tw_cp_before_dispatch"} THEN "prepare"
  ELSE IF at \in {"submit", "submitted", "drain", "tw_submit", "tw_submitted",
                   "tw_drain"} THEN "dispatch"
  ELSE "finalize"

cancel ==
  /\ is_cancelled' = TRUE
  /\ cancel_at' = IF is_cancelled THEN cancel_at ELSE CurrentFile
  /\ cancel_pc' = IF is_cancelled THEN cancel_pc ELSE Phase(pc)
  /\ UNCHANGED << gui, config, pc, file_idx, exc, locals, results, events, disk, hist >>

\* ------------------------------------------- BatchTranscriptionWorker.run
\* The loop without its cancellation check
run_loop_unchecked ==
  /\ pc = "loop"
  /\ pc' = IF file_idx >= total_files THEN "finish" ELSE "started"
  /\ UNCHANGED << gui, config, is_cancelled, file_idx, exc, locals, results, events,
                  disk, hist, ghost >>

\* A loop that clears the flag when it breaks
run_loop_clearing ==
  /\ pc = "loop"
  /\ pc' = IF file_idx >= total_files \/ is_cancelled THEN "finish" ELSE "started"
  /\ is_cancelled' = FALSE
  /\ UNCHANGED << gui, config, file_idx, exc, locals, results, events, disk, hist,
                  ghost >>

\* A loop that returns from run() when it observes cancellation
run_loop_returning ==
  /\ pc = "loop"
  /\ pc' = IF is_cancelled THEN "done"
           ELSE IF file_idx >= total_files THEN "finish" ELSE "started"
  /\ UNCHANGED << gui, config, is_cancelled, file_idx, exc, locals, results, events,
                  disk, hist, ghost >>

\* for file_idx, input_file in enumerate(self.input_files):
\*     if self._is_cancelled: break
run_loop ==
  /\ pc = "loop"
  /\ pc' = IF file_idx >= total_files \/ is_cancelled THEN "finish" ELSE "started"
  /\ UNCHANGED << gui, config, is_cancelled, file_idx, exc, locals, results, events,
                  disk, hist, ghost >>

run_file_started ==
  /\ pc = "started"
  /\ events' = Append(events, [sig |-> "file_started", idx |-> file_idx])
  /\ pc' = "key"
  /\ UNCHANGED << gui, config, is_cancelled, file_idx, exc, locals, results, disk,
                  hist, ghost >>

\* _process_single_file: the credential check and the first progress signal
process_api_key ==
  /\ pc = "key"
  /\ IF has_key
       THEN /\ events' = Append(events, FileProgress(0))
            /\ pc' = "cp_before_decode"
            /\ exc' = exc
       ELSE /\ exc' = Raise("ValueError")
            /\ pc' = "except"
            /\ events' = events
  /\ UNCHANGED << gui, config, is_cancelled, file_idx, locals, results, disk, hist,
                  ghost >>

\* A checkpoint that does not read the flag
CheckpointSkipped(next) ==
  /\ exc' = exc
  /\ pc' = next
  /\ UNCHANGED << gui, config, is_cancelled, file_idx, locals, results, events, disk,
                  hist, ghost >>

\* if self._is_cancelled: raise InterruptedError("Cancelled")
Checkpoint(next) ==
  /\ IF is_cancelled
       THEN exc' = Cancelled /\ pc' = "except"
       ELSE exc' = exc /\ pc' = next
  /\ UNCHANGED << gui, config, is_cancelled, file_idx, locals, results, events, disk,
                  hist, ghost >>

process_cp_before_decode ==
  /\ pc = "cp_before_decode"
  /\ Checkpoint("load")

\* wav = load_audio(input_file); duration = len(wav) / WAV_SAMPLE_RATE
process_load_audio ==
  /\ pc = "load"
  /\ decoded' = decoded \cup {file_idx}
  /\ \/ /\ exc' = Raise("DecodeError")
        /\ pc' = "except"
        /\ UNCHANGED << events, duration >>
     \/ /\ \E d \in Durations : duration' = d
        /\ events' = Append(events, FileProgress(10))
        /\ pc' = "cp_after_decode"
        /\ exc' = exc
  /\ UNCHANGED << gui, config, is_cancelled, file_idx, wav_list, staged, pool, drainv,
                  out, results, disk, ws_created, called, seg_failed, ghost >>

process_cp_after_decode ==
  /\ pc = "cp_after_decode"
  /\ Checkpoint("segment")

\* process_vad(wav, model, segment_threshold_s): n segments covering [0, duration)
VadSegments(d, n) ==
  [ i \in 1..n |-> << (i - 1) * (d \div n), IF i = n THEN d ELSE i * (d \div n) >> ]

\* A segmentation step that takes the VAD path only above 180 seconds
process_segment_strict ==
  /\ pc = "segment"
  /\ IF duration > 180
       THEN \/ /\ events' = Append(events, FileProgress(15))
               /\ exc' = Raise("VadLoadError")
               /\ pc' = "except"
               /\ wav_list' = wav_list
            \/ /\ \E n \in 1..MaxSegs : wav_list' = VadSegments(duration, n)
               /\ events' = events \o << FileProgress(15), FileProgress(20) >>
               /\ exc' = exc
               /\ pc' = "cp_after_segment"
       ELSE /\ wav_list' = << << 0, duration >> >>
            /\ events' = events
            /\ exc' = exc
            /\ pc' = "cp_after_segment"
  /\ UNCHANGED << gui, config, is_cancelled, file_idx, duration, staged, pool, drainv,
                  out, results, disk, hist, ghost >>

\* if duration >= 180: VAD segmentation, else one segment (0, len(wav))
process_segment ==
  /\ pc = "segment"
  /\ IF duration >= 180
       THEN \/ /\ events' = Append(events, FileProgress(15))
               /\ exc' = Raise("VadLoadError")
               /\ pc' = "except"
               /\ wav_list' = wav_list
            \/ /\ \E n \in 1..MaxSegs : wav_list' = VadSegments(duration, n)
               /\ events' = events \o << FileProgress(15), FileProgress(20) >>
               /\ exc' = exc
               /\ pc' = "cp_after_segment"
       ELSE /\ wav_list' = << << 0, duration >> >>
            /\ events' = events
            /\ exc' = exc
            /\ pc' = "cp_after_segment"
  /\ UNCHANGED << gui, config, is_cancelled, file_idx, duration, staged, pool, drainv,
                  out, results, disk, hist, ghost >>

process_cp_after_segment ==
  /\ pc = "cp_after_segment"
  /\ Checkpoint("stage")

\* The segment files save_audio_file writes for segments 0..n-1 of the file
StagedFiles(n) ==
  { [dir |-> save_dir, name |-> wav_name, idx |-> i] : i \in 0..(n - 1) }

\* for idx, (_, _, wav_data) in enumerate(wav_list):
\*     save_audio_file(wav_data, os.path.join(save_dir, f"{wav_name}_{idx}.wav"))
\* save_audio_file creates save_dir when missing, then writes the file; the
\* loop either stages every segment or raises at some segment j, with the
\* segments before j already written under save_dir
process_stage_segments ==
  /\ pc = "stage"
  /\ staged < Len(wav_list)
  /\ \/ /\ dirs' = dirs \cup {save_dir}
        /\ fs' = fs \cup StagedFiles(Len(wav_list))
        /\ ws_created' = IF save_dir \in dirs THEN ws_created
                                              ELSE ws_created \cup {file_idx}
        /\ staged' = Len(wav_list)
        /\ UNCHANGED << exc, pc >>
     \/ /\ exc' = Raise("IOError")
        /\ pc' = "except"
        /\ \E j \in 0..(Len(wav_list) - 1) :
             /\ fs' = fs \cup StagedFiles(j)
             /\ IF j = 0
                  THEN UNCHANGED << dirs, ws_created >>
                  ELSE /\ dirs' = dirs \cup {save_dir}
                       /\ ws_created' = IF save_dir \in dirs THEN ws_created
                                                             ELSE ws_created \cup {file_idx}
        /\ UNCHANGED staged
  /\ UNCHANGED << gui, config, is_cancelled, file_idx, duration, wav_list, pool, drainv,
                  out, results, events, outputs, decoded, called, seg_failed, ghost >>

process_staged ==
  /\ pc = "stage"
  /\ staged = Len(wav_list)
  /\ events' = Append(events, FileProgress(25))
  /\ pc' = "cp_before_dispatch"
  /\ UNCHANGED << gui, config, is_cancelled, file_idx, exc, locals, results, disk,
                  hist, ghost >>

\* A call of _transcribe_segments without the checkpoint before it
process_cp_before_dispatch_skipped ==
  /\ pc = "cp_before_dispatch"
  /\ pc' = "submit"
  /\ UNCHANGED << gui, config, is_cancelled, file_idx, exc, locals, results, events,
                  disk, hist, ghost >>

\* if self._is_cancelled: self._cleanup(save_dir); raise InterruptedError
process_cp_before_dispatch ==
  /\ pc = "cp_before_dispatch"
  /\ IF is_cancelled
       THEN /\ RmTree(save_dir)
            /\ exc' = Cancelled
            /\ pc' = "except"
       ELSE /\ UNCHANGED << dirs, fs, exc >>
            /\ pc' = "submit"
  /\ UNCHANGED << gui, config, is_cancelled, file_idx, locals, results, events,
                  outputs, hist, ghost >>
\* ------------------------------------------------- ThreadPoolExecutor
Future(st, language, text) == [st |-> st, language |-> language, text |-> text]

\* A pool that spawns a thread per submitted item
AdjustThreadCountUnbounded(n) == n + 1

\* ThreadPoolExecutor(max_workers=self.num_threads): submit() spawns a thread
\* only while fewer than max_workers exist
AdjustThreadCount(n) == IF n < num_threads THEN n + 1 ELSE n

RECURSIVE SpawnThreads(_, _)
SpawnThreads(n, submits) ==
  IF submits = 0 THEN n ELSE SpawnThreads(AdjustThreadCount(n), submits - 1)

\* future_dict = {executor.submit(qwen3asr.asr, wav_path, self.context): idx
\*                for idx, wav_path in enumerate(wav_path_list)}
transcribe_submit ==
  /\ pc = "submit"
  /\ futures = << >>
  /\ futures' = [ k \in 1..staged |-> Future("queued", "", "") ]
  /\ nthreads' = SpawnThreads(0, staged)
  /\ pc' = "submitted"
  /\ UNCHANGED << gui, config, is_cancelled, file_idx, exc, duration, wav_list,
                  staged, first_batch, waiter, drainv, out, results, events, disk,
                  hist, ghost >>

\* An idle pool thread takes the oldest queued work item and invokes the client
worker_start ==
  /\ Queued # {}
  /\ Cardinality(Running) < nthreads
  /\ LET k == CHOOSE q \in Queued : \A r \in Queued : q <= r
     IN  /\ futures' = [futures EXCEPT ![k].st = "running"]
         /\ called' = called \cup {<< file_idx, k - 1 >>}
  /\ UNCHANGED << gui, config, is_cancelled, pc, file_idx, exc, duration, wav_list,
                  staged, nthreads, first_batch, waiter, drainv, out, results,
                  events, disk, decoded, ws_created, seg_failed, ghost >>

\* A pool thread that puts a failed call back on the queue
worker_finish_retrying ==
  /\ \E k \in Running :
       /\ \/ /\ \E l \in Languages :
                  futures' = [futures EXCEPT ![k] = Future("done", l, SegText(k - 1))]
             /\ seg_failed' = seg_failed
             /\ waiter' = IF pc \in {"drain", "tw_drain"} THEN Append(waiter, k)
                                                          ELSE waiter
          \/ /\ << file_idx, k - 1 >> \notin seg_failed
             /\ futures' = [futures EXCEPT ![k].st = "queued"]
             /\ seg_failed' = seg_failed \cup {<< file_idx, k - 1 >>}
             /\ waiter' = waiter
          \/ /\ << file_idx, k - 1 >> \in seg_failed
             /\ futures' = [futures EXCEPT ![k].st = "failed"]
             /\ seg_failed' = seg_failed
             /\ waiter' = IF pc \in {"drain", "tw_drain"} THEN Append(waiter, k)
                                                          ELSE waiter
  /\ UNCHANGED << gui, config, is_cancelled, pc, file_idx, exc, duration, wav_list,
                  staged, nthreads, first_batch, drainv, out, results, events,
                  disk, decoded, ws_created, called, ghost >>

\* qwen3asr.asr returns (language, text) or raises; the future is set and any
\* as_completed waiter is notified
worker_finish ==
  /\ \E k \in Running :
       /\ \/ /\ \E l \in Languages :
                  futures' = [futures EXCEPT ![k] = Future("done", l, SegText(k - 1))]
             /\ seg_failed' = seg_failed
          \/ /\ futures' = [futures EXCEPT ![k].st = "failed"]
             /\ seg_failed' = seg_failed \cup {<< file_idx, k - 1 >>}
       /\ waiter' = IF pc \in {"drain", "tw_drain"} THEN Append(waiter, k) ELSE waiter
  /\ UNCHANGED << gui, config, is_cancelled, pc, file_idx, exc, duration, wav_list,
                  staged, nthreads, first_batch, drainv, out, results, events,
                  disk, decoded, ws_created, called, ghost >>

\* concurrent.futures.as_completed(future_dict): on entry, the futures that
\* are already finished are collected; they are yielded first, in any order
transcribe_as_completed ==
  /\ pc = "submitted"
  /\ first_batch' = { k \in 1..Len(futures) : futures[k].st \in Settled }
  /\ waiter' = << >>
  /\ pc' = "drain"
  /\ UNCHANGED << gui, config, is_cancelled, file_idx, exc, duration, wav_list,
                  staged, futures, nthreads, drainv, out, results, events, disk,
                  hist, ghost >>

\* executor.shutdown(wait=False) without cancel_futures
CancelFuturesNone(f) == f

\* executor.shutdown(wait=False, cancel_futures=True): queued items are cancelled
CancelFutures(f) ==
  [ k \in 1..Len(f) |-> IF f[k].st = "queued" THEN Future("cancelled", "", "") ELSE f[k] ]

\* A drain loop that goes on past a failed segment
DrainBodySkipFailed(k) ==
  IF is_cancelled
    THEN /\ futures' = CancelFutures(futures)
         /\ RmTree(save_dir)
         /\ exc' = Cancelled
         /\ pc' = "with_exit"
         /\ UNCHANGED << drainv, events >>
    ELSE IF futures[k].st = "failed"
      THEN UNCHANGED << futures, drainv, events, dirs, fs, exc, pc >>
      ELSE /\ seg_results' = Append(seg_results, << k - 1, futures[k].text >>)
           /\ languages' = Append(languages, futures[k].language)
           /\ completed' = completed + 1
           /\ events' = Append(events,
                 FileProgress(ProgressPct(completed + 1, Len(futures))))
           /\ UNCHANGED << futures, exc, pc, dirs, fs >>

\* Body of the drain loop for the yielded future k
DrainBody(k) ==
  IF is_cancelled
    THEN /\ futures' = CancelFutures(futures)
         /\ RmTree(save_dir)
         /\ exc' = Cancelled
         /\ pc' = "with_exit"
         /\ UNCHANGED << drainv, events >>
    ELSE IF futures[k].st = "failed"
      THEN /\ exc' = SegError(k - 1)
           /\ pc' = "with_exit"
           /\ UNCHANGED << futures, drainv, events, dirs, fs >>
      ELSE /\ seg_results' = Append(seg_results, << k - 1, futures[k].text >>)
           /\ languages' = Append(languages, futures[k].language)
           /\ completed' = completed + 1
           /\ events' = Append(events,
                 FileProgress(ProgressPct(completed + 1, Len(futures))))
           /\ UNCHANGED << futures, exc, pc, dirs, fs >>

\* for future in as_completed(future_dict): ...
transcribe_drain ==
  /\ pc = "drain"
  /\ \/ /\ first_batch # {}
        /\ \E k \in first_batch :
             /\ first_batch' = first_batch \ {k}
             /\ DrainBody(k)
        /\ UNCHANGED waiter
     \/ /\ first_batch = {}
        /\ waiter # << >>
        /\ waiter' = Tail(waiter)
        /\ DrainBody(Head(waiter))
        /\ UNCHANGED first_batch
  /\ UNCHANGED << gui, config, is_cancelled, file_idx, duration, wav_list, staged,
                  nthreads, out, results, outputs, hist, ghost >>

\* as_completed is exhausted: every future was yielded
transcribe_drained ==
  /\ pc = "drain"
  /\ first_batch = {}
  /\ waiter = << >>
  /\ AllSettled
  /\ pc' = "with_exit"
  /\ UNCHANGED << gui, config, is_cancelled, file_idx, exc, locals, results, events,
                  disk, hist, ghost >>

\* An exit of the `with` block that cancels the work items still queued
transcribe_with_exit_cancelling ==
  /\ pc = "with_exit"
  /\ Running = {}
  /\ futures' = CancelFutures(futures)
  /\ pc' = IF exc = NoExc THEN "assemble" ELSE "except"
  /\ UNCHANGED << gui, config, is_cancelled, file_idx, exc, duration, wav_list,
                  staged, nthreads, first_batch, waiter, drainv, out, results,
                  events, disk, hist, ghost >>

\* An exit of the `with` block that does not join the pool threads
transcribe_with_exit_nowait ==
  /\ pc = "with_exit"
  /\ pc' = IF exc = NoExc THEN "assemble" ELSE "except"
  /\ UNCHANGED << gui, config, is_cancelled, file_idx, exc, locals, results, events,
                  disk, hist, ghost >>

\* ThreadPoolExecutor.__exit__: shutdown(wait=True) joins the pool threads,
\* which first run every work item still queued
transcribe_with_exit ==
  /\ pc = "with_exit"
  /\ AllSettled
  /\ pc' = IF exc = NoExc THEN "assemble" ELSE "except"
  /\ UNCHANGED << gui, config, is_cancelled, file_idx, exc, locals, results, events,
                  disk, hist, ghost >>
\* ------------------------------------------ assembly, output, cleanup
\* results.sort(...); full_text = " ".join(...); detected_language = ...;
\* segments = [...]
Assemble(res, langs, wl) ==
  LET sorted == SortByIdx(res)
  IN  [full_text |-> JoinTexts(sorted), language |-> MostCommon(langs),
       segments |-> BuildSegments(sorted, wl)]

transcribe_assemble ==
  /\ pc = "assemble"
  /\ seg_results' = SortByIdx(seg_results)
  /\ out' = Assemble(seg_results, languages, wav_list)
  /\ events' = Append(events, FileProgress(95))
  /\ pc' = "save"
  /\ UNCHANGED << gui, config, is_cancelled, file_idx, exc, duration, wav_list, staged,
                  pool, languages, completed, results, disk, hist, ghost >>

\* f.write(f"{detected_language}\n"); f.write(f"{full_text}\n")
TxtFile(i, o) ==
  [file |-> i, ext |-> "txt", content |-> << o.language, o.full_text >>]

\* srt.compose(subtitles): the cues in order, renumbered from 1
SrtFile(i, o) ==
  [file |-> i, ext |-> "srt",
   content |-> [ p \in 1..Len(o.segments) |->
                   [number |-> p, start |-> o.segments[p].start,
                    end |-> o.segments[p].end, text |-> o.segments[p].text] ]]

\* An output step that swallows a failed write
transcribe_save_output_swallowing ==
  /\ pc = "save"
  /\ \/ outputs' = outputs
     \/ outputs' = outputs \cup {TxtFile(file_idx, out)} \cup
          (IF save_srt /\ out.segments # << >>
             THEN {SrtFile(file_idx, out)} ELSE {})
  /\ pc' = "cleanup"
  /\ UNCHANGED << gui, config, is_cancelled, file_idx, exc, locals, results, events,
                  dirs, fs, hist, ghost >>

\* _save_output_files: the .txt, then the .srt if self.save_srt and segments
transcribe_save_output ==
  /\ pc = "save"
  /\ \/ /\ exc' = Raise("IOError")
        /\ pc' = "except"
        /\ outputs' = outputs
     \/ /\ save_srt /\ out.segments # << >>
        /\ exc' = Raise("IOError")
        /\ pc' = "except"
        /\ outputs' = outputs \cup {TxtFile(file_idx, out)}
     \/ /\ outputs' = outputs \cup {TxtFile(file_idx, out)} \cup
             (IF save_srt /\ out.segments # << >>
                THEN {SrtFile(file_idx, out)} ELSE {})
        /\ pc' = "cleanup"
        /\ exc' = exc
  /\ UNCHANGED << gui, config, is_cancelled, file_idx, locals, results, events, dirs,
                  fs, hist, ghost >>

\* self._cleanup(save_dir); file_progress 100; return the result
transcribe_cleanup ==
  /\ pc = "cleanup"
  /\ RmTree(save_dir)
  /\ events' = Append(events, FileProgress(100))
  /\ pc' = "completed"
  /\ UNCHANGED << gui, config, is_cancelled, file_idx, exc, locals, results, outputs,
                  hist, ghost >>

\* A completed-count that starts at 0
BatchProgressFromZero == [sig |-> "batch_progress", completed |-> file_idx,
                          total |-> total_files]

BatchProgress == [sig |-> "batch_progress", completed |-> file_idx + 1,
                  total |-> total_files]

\* A try block that raises after file_completed was emitted
run_file_completed_raising ==
  /\ pc = "completed"
  /\ results' = Append(results,
       [file_idx |-> file_idx, input_file |-> input_file,
        full_text |-> out.full_text, language |-> out.language,
        segments |-> out.segments, error |-> NoExc])
  /\ events' = Append(events,
       [sig |-> "file_completed", idx |-> file_idx, full_text |-> out.full_text,
        language |-> out.language, segments |-> out.segments])
  /\ exc' = Raise("TypeError")
  /\ pc' = "except"
  /\ UNCHANGED << gui, config, is_cancelled, file_idx, locals, disk, hist, ghost >>

\* results.append(result); self.file_completed.emit(...); batch_progress
run_file_completed ==
  /\ pc = "completed"
  /\ results' = Append(results,
       [file_idx |-> file_idx, input_file |-> input_file,
        full_text |-> out.full_text, language |-> out.language,
        segments |-> out.segments, error |-> NoExc])
  /\ events' = events \o
       << [sig |-> "file_completed", idx |-> file_idx, full_text |-> out.full_text,
           language |-> out.language, segments |-> out.segments],
          BatchProgress >>
  /\ file_idx' = file_idx + 1
  /\ pc' = "loop"
  /\ ResetLocals
  /\ UNCHANGED << gui, config, is_cancelled, exc, disk, hist, ghost >>

\* An except branch that records the failure without emitting file_error
run_file_error_silent ==
  /\ pc = "except"
  /\ events' = Append(events, BatchProgress)
  /\ results' = Append(results,
       [file_idx |-> file_idx, input_file |-> input_file, full_text |-> "",
        language |-> "", segments |-> << >>, error |-> exc])
  /\ exc' = NoExc
  /\ file_idx' = file_idx + 1
  /\ pc' = "loop"
  /\ ResetLocals
  /\ UNCHANGED << gui, config, is_cancelled, disk, hist, ghost >>

\* An except branch that ends the loop
run_file_error_aborting ==
  /\ pc = "except"
  /\ events' = events \o
       << [sig |-> "file_error", idx |-> file_idx, error |-> exc], BatchProgress >>
  /\ results' = Append(results,
       [file_idx |-> file_idx, input_file |-> input_file, full_text |-> "",
        language |-> "", segments |-> << >>, error |-> exc])
  /\ exc' = NoExc
  /\ file_idx' = file_idx + 1
  /\ pc' = "finish"
  /\ ResetLocals
  /\ UNCHANGED << gui, config, is_cancelled, disk, hist, ghost >>

\* An except branch that emits file_error without recording the failure
run_file_error_unrecorded ==
  /\ pc = "except"
  /\ events' = events \o
       << [sig |-> "file_error", idx |-> file_idx, error |-> exc], BatchProgress >>
  /\ results' = results
  /\ exc' = NoExc
  /\ file_idx' = file_idx + 1
  /\ pc' = "loop"
  /\ ResetLocals
  /\ UNCHANGED << gui, config, is_cancelled, disk, hist, ghost >>

\* except Exception as e: self.file_error.emit(file_idx, str(e));
\* results.append({... "error": str(e) ...}); batch_progress
run_file_error ==
  /\ pc = "except"
  /\ events' = events \o
       << [sig |-> "file_error", idx |-> file_idx, error |-> exc], BatchProgress >>
  /\ results' = Append(results,
       [file_idx |-> file_idx, input_file |-> input_file, full_text |-> "",
        language |-> "", segments |-> << >>, error |-> exc])
  /\ exc' = NoExc
  /\ file_idx' = file_idx + 1
  /\ pc' = "loop"
  /\ ResetLocals
  /\ UNCHANGED << gui, config, is_cancelled, disk, hist, ghost >>

\* self.batch_finished.emit(results)
run_batch_finished ==
  /\ pc = "finish"
  /\ events' = Append(events, [sig |-> "batch_finished", results |-> results])
  /\ pc' = "done"
  /\ UNCHANGED << gui, config, is_cancelled, file_idx, exc, locals, results, disk,
                  hist, ghost >>

\* str(e) as recorded under "error": the messages of the exceptions raised in
\* this module are literals; a collaborator's exception carries its description
ErrorText(e) ==
  IF e = NoExc THEN ""
  ELSE IF e.type = "ValueError" THEN "No API key provided"
  ELSE IF e.type = "InterruptedError" THEN "Cancelled"
  ELSE e.type

\* MainWindow._on_batch_finished:
\* success = sum(1 for r in results if not r.get("error"))
on_batch_finished_success(res) ==
  Cardinality({ r \in 1..Len(res) : ErrorText(res[r].error) = "" })

\* failed = len(results) - success
on_batch_finished_failed(res) == Len(res) - on_batch_finished_success(res)

\* --------------------------------------------- TranscriptionWorker.run
Progress(pct) == [sig |-> "progress", pct |-> pct]
StatusUpdate == [sig |-> "status_update"]
\* `return` travelling out of the `with` block
Return == Raise("return")

\* the credential check, "Loading audio file...", progress 0
tw_run_api_key ==
  /\ pc = "tw_key"
  /\ IF has_key
       THEN /\ events' = events \o << StatusUpdate, Progress(0) >>
            /\ pc' = "tw_cp_before_decode"
       ELSE /\ events' = Append(events, [sig |-> "error", error |-> Raise("NoApiKey")])
            /\ pc' = "tw_done"
  /\ UNCHANGED << gui, config, is_cancelled, file_idx, exc, locals, results, disk,
                  hist, ghost >>

\* A checkpoint that raises InterruptedError instead of returning
tw_CheckpointRaising(next) ==
  /\ pc' = IF is_cancelled THEN "tw_except" ELSE next
  /\ exc' = IF is_cancelled THEN Cancelled ELSE exc
  /\ UNCHANGED << gui, config, is_cancelled, file_idx, locals, results, events,
                  disk, hist, ghost >>

\* if self._is_cancelled: return
tw_Checkpoint(next) ==
  /\ pc' = IF is_cancelled THEN "tw_done" ELSE next
  /\ UNCHANGED << gui, config, is_cancelled, file_idx, exc, locals, results, events,
                  disk, hist, ghost >>

tw_run_cp_before_decode ==
  /\ pc = "tw_cp_before_decode"
  /\ tw_Checkpoint("tw_load")

tw_run_load_audio ==
  /\ pc = "tw_load"
  /\ decoded' = decoded \cup {file_idx}
  /\ \/ /\ exc' = Raise("DecodeError")
        /\ pc' = "tw_except"
        /\ UNCHANGED << events, duration >>
     \/ /\ \E d \in Durations : duration' = d
        /\ events' = events \o << StatusUpdate, Progress(10) >>
        /\ pc' = "tw_cp_after_decode"
        /\ exc' = exc
  /\ UNCHANGED << gui, config, is_cancelled, file_idx, wav_list, staged, pool, drainv,
                  out, results, disk, ws_created, called, seg_failed, ghost >>

tw_run_cp_after_decode ==
  /\ pc = "tw_cp_after_decode"
  /\ tw_Checkpoint("tw_segment")

tw_run_segment ==
  /\ pc = "tw_segment"
  /\ IF duration >= 180
       THEN \/ /\ events' = events \o << StatusUpdate, Progress(15) >>
               /\ exc' = Raise("VadLoadError")
               /\ pc' = "tw_except"
               /\ wav_list' = wav_list
            \/ /\ \E n \in 1..MaxSegs : wav_list' = VadSegments(duration, n)
               /\ events' = events \o
                    << StatusUpdate, Progress(15), StatusUpdate, Progress(20) >>
               /\ exc' = exc
               /\ pc' = "tw_cp_after_segment"
       ELSE /\ wav_list' = << << 0, duration >> >>
            /\ events' = events
            /\ exc' = exc
            /\ pc' = "tw_cp_after_segment"
  /\ UNCHANGED << gui, config, is_cancelled, file_idx, duration, staged, pool, drainv,
                  out, results, disk, hist, ghost >>

tw_run_cp_after_segment ==
  /\ pc = "tw_cp_after_segment"
  /\ tw_Checkpoint("tw_stage")

tw_run_stage_segments ==
  /\ pc = "tw_stage"
  /\ staged < Len(wav_list)
  /\ \/ /\ dirs' = dirs \cup {save_dir}
        /\ fs' = fs \cup StagedFiles(Len(wav_list))
        /\ ws_created' = IF save_dir \in dirs THEN ws_created
                                              ELSE ws_created \cup {file_idx}
        /\ staged' = Len(wav_list)
        /\ UNCHANGED << exc, pc >>
     \/ /\ exc' = Raise("IOError")
        /\ pc' = "tw_except"
        /\ \E j \in 0..(Len(wav_list) - 1) :
             /\ fs' = fs \cup StagedFiles(j)
             /\ IF j = 0
                  THEN UNCHANGED << dirs, ws_created >>
                  ELSE /\ dirs' = dirs \cup {save_dir}
                       /\ ws_created' = IF save_dir \in dirs THEN ws_created
                                                             ELSE ws_created \cup {file_idx}
        /\ UNCHANGED staged
  /\ UNCHANGED << gui, config, is_cancelled, file_idx, duration, wav_list, pool, drainv,
                  out, results, events, outputs, decoded, called, seg_failed, ghost >>

tw_run_staged ==
  /\ pc = "tw_stage"
  /\ staged = Len(wav_list)
  /\ events' = Append(events, Progress(25))
  /\ pc' = "tw_cp_before_dispatch"
  /\ UNCHANGED << gui, config, is_cancelled, file_idx, exc, locals, results, disk,
                  hist, ghost >>

\* if self._is_cancelled: self._cleanup(save_dir); return
tw_run_cp_before_dispatch ==
  /\ pc = "tw_cp_before_dispatch"
  /\ IF is_cancelled
       THEN /\ RmTree(save_dir)
            /\ pc' = "tw_done"
       ELSE /\ UNCHANGED << dirs, fs >>
            /\ pc' = "tw_submit"
  /\ UNCHANGED << gui, config, is_cancelled, file_idx, exc, locals, results, events,
                  outputs, hist, ghost >>

tw_run_submit ==
  /\ pc = "tw_submit"
  /\ futures = << >>
  /\ futures' = [ k \in 1..staged |-> Future("queued", "", "") ]
  /\ nthreads' = SpawnThreads(0, staged)
  /\ pc' = "tw_submitted"
  /\ UNCHANGED << gui, config, is_cancelled, file_idx, exc, duration, wav_list,
                  staged, first_batch, waiter, drainv, out, results, events, disk,
                  hist, ghost >>

tw_run_as_completed ==
  /\ pc = "tw_submitted"
  /\ first_batch' = { k \in 1..Len(futures) : futures[k].st \in Settled }
  /\ waiter' = << >>
  /\ pc' = "tw_drain"
  /\ UNCHANGED << gui, config, is_cancelled, file_idx, exc, duration, wav_list,
                  staged, futures, nthreads, drainv, out, results, events, disk,
                  hist, ghost >>

\* A drain loop that takes the times of segment_completed by position
tw_DrainBodyByPosition(k) ==
  IF is_cancelled
    THEN /\ futures' = CancelFutures(futures)
         /\ RmTree(save_dir)
         /\ exc' = Return
         /\ pc' = "tw_with_exit"
         /\ UNCHANGED << drainv, events >>
    ELSE IF futures[k].st = "failed"
      THEN /\ events' = Append(events, [sig |-> "error", error |-> SegError(k - 1)])
           /\ UNCHANGED << futures, drainv, exc, pc, dirs, fs >>
      ELSE /\ seg_results' = Append(seg_results, << k - 1, futures[k].text >>)
           /\ languages' = Append(languages, futures[k].language)
           /\ completed' = completed + 1
           /\ events' = events \o
                << [sig |-> "segment_completed", idx |-> k - 1,
                    text |-> futures[k].text, start |-> wav_list[completed + 1][1],
                    end |-> wav_list[completed + 1][2]],
                   Progress(ProgressPct(completed + 1, Len(futures))),
                   StatusUpdate >>
           /\ UNCHANGED << futures, exc, pc, dirs, fs >>

\* Body of TranscriptionWorker's drain loop for the yielded future k: a failed
\* segment is reported with the error signal and the loop goes on
tw_DrainBody(k) ==
  IF is_cancelled
    THEN /\ futures' = CancelFutures(futures)
         /\ RmTree(save_dir)
         /\ exc' = Return
         /\ pc' = "tw_with_exit"
         /\ UNCHANGED << drainv, events >>
    ELSE IF futures[k].st = "failed"
      THEN /\ events' = Append(events, [sig |-> "error", error |-> SegError(k - 1)])
           /\ UNCHANGED << futures, drainv, exc, pc, dirs, fs >>
      ELSE /\ seg_results' = Append(seg_results, << k - 1, futures[k].text >>)
           /\ languages' = Append(languages, futures[k].language)
           /\ completed' = completed + 1
           /\ events' = events \o
                << [sig |-> "segment_completed", idx |-> k - 1,
                    text |-> futures[k].text, start |-> wav_list[k][1],
                    end |-> wav_list[k][2]],
                   Progress(ProgressPct(completed + 1, Len(futures))),
                   StatusUpdate >>
           /\ UNCHANGED << futures, exc, pc, dirs, fs >>

tw_run_drain ==
  /\ pc = "tw_drain"
  /\ \/ /\ first_batch # {}
        /\ \E k \in first_batch :
             /\ first_batch' = first_batch \ {k}
             /\ tw_DrainBody(k)
        /\ UNCHANGED waiter
     \/ /\ first_batch = {}
        /\ waiter # << >>
        /\ waiter' = Tail(waiter)
        /\ tw_DrainBody(Head(waiter))
        /\ UNCHANGED first_batch
  /\ UNCHANGED << gui, config, is_cancelled, file_idx, duration, wav_list, staged,
                  nthreads, out, results, outputs, hist, ghost >>

tw_run_drained ==
  /\ pc = "tw_drain"
  /\ first_batch = {}
  /\ waiter = << >>
  /\ AllSettled
  /\ pc' = "tw_with_exit"
  /\ UNCHANGED << gui, config, is_cancelled, file_idx, exc, locals, results, events,
                  disk, hist, ghost >>

tw_run_with_exit ==
  /\ pc = "tw_with_exit"
  /\ AllSettled
  /\ pc' = IF exc = Return THEN "tw_done" ELSE "tw_assemble"
  /\ exc' = NoExc
  /\ UNCHANGED << gui, config, is_cancelled, file_idx, locals, results, events, disk,
                  hist, ghost >>

tw_run_assemble ==
  /\ pc = "tw_assemble"
  /\ seg_results' = SortByIdx(seg_results)
  /\ out' = Assemble(seg_results, languages, wav_list)
  /\ events' = Append(events, Progress(95))
  /\ pc' = "tw_save"
  /\ UNCHANGED << gui, config, is_cancelled, file_idx, exc, duration, wav_list, staged,
                  pool, languages, completed, results, disk, hist, ghost >>

\* the .txt, then the .srt if self.save_srt
tw_run_save_output ==
  /\ pc = "tw_save"
  /\ \/ /\ exc' = Raise("IOError")
        /\ pc' = "tw_except"
        /\ outputs' = outputs
     \/ /\ save_srt
        /\ exc' = Raise("IOError")
        /\ pc' = "tw_except"
        /\ outputs' = outputs \cup {TxtFile(file_idx, out)}
     \/ /\ outputs' = outputs \cup {TxtFile(file_idx, out)} \cup
             (IF save_srt THEN {SrtFile(file_idx, out)} ELSE {})
        /\ pc' = "tw_cleanup"
        /\ exc' = exc
  /\ UNCHANGED << gui, config, is_cancelled, file_idx, locals, results, events, dirs,
                  fs, hist, ghost >>

\* self._cleanup(save_dir); progress 100; status; finished_transcription
tw_run_finished ==
  /\ pc = "tw_cleanup"
  /\ RmTree(save_dir)
  /\ events' = events \o
       << Progress(100), StatusUpdate,
          [sig |-> "finished_transcription", full_text |-> out.full_text,
           language |-> out.language, segments |-> out.segments] >>
  /\ pc' = "tw_done"
  /\ UNCHANGED << gui, config, is_cancelled, file_idx, exc, locals, results, outputs,
                  hist, ghost >>

\* except Exception as e: self.error.emit(f"Transcription failed: {str(e)}")
tw_run_except ==
  /\ pc = "tw_except"
  /\ events' = Append(events, [sig |-> "error", error |-> exc])
  /\ exc' = NoExc
  /\ pc' = "tw_done"
  /\ UNCHANGED << gui, config, is_cancelled, file_idx, locals, results, disk, hist,
                  ghost >>

Next ==
  \/ cancel
  \/ run_loop
  \/ run_file_started
  \/ process_api_key
  \/ process_cp_before_decode
  \/ process_load_audio
  \/ process_cp_after_decode
  \/ process_segment
  \/ process_cp_after_segment
  \/ process_stage_segments
  \/ process_staged
  \/ process_cp_before_dispatch
  \/ transcribe_submit
  \/ worker_start
  \/ worker_finish
  \/ transcribe_as_completed
  \/ transcribe_drain
  \/ transcribe_drained
  \/ transcribe_with_exit
  \/ transcribe_assemble
  \/ transcribe_save_output
  \/ transcribe_cleanup
  \/ run_file_completed
  \/ run_file_error
  \/ run_batch_finished
  \/ tw_run_api_key
  \/ tw_run_cp_before_decode
  \/ tw_run_load_audio
  \/ tw_run_cp_after_decode
  \/ tw_run_segment
  \/ tw_run_cp_after_segment
  \/ tw_run_stage_segments
  \/ tw_run_staged
  \/ tw_run_cp_before_dispatch
  \/ tw_run_submit
  \/ tw_run_as_completed
  \/ tw_run_drain
  \/ tw_run_drained
  \/ tw_run_with_exit
  \/ tw_run_assemble
  \/ tw_run_save_output
  \/ tw_run_finished
  \/ tw_run_except

Spec == Init /\ [][Next]_vars

\* ------------------------------------------------------------ scheduling
\* The steps of BatchTranscriptionWorker.run, taken by the worker's QThread
BatchRun ==
  \/ run_loop
  \/ run_file_started
  \/ process_api_key
  \/ process_cp_before_decode
  \/ process_load_audio
  \/ process_cp_after_decode
  \/ process_segment
  \/ process_cp_after_segment
  \/ process_stage_segments
  \/ process_staged
  \/ process_cp_before_dispatch
  \/ transcribe_submit
  \/ transcribe_as_completed
  \/ transcribe_drain
  \/ transcribe_drained
  \/ transcribe_with_exit
  \/ transcribe_assemble
  \/ transcribe_save_output
  \/ transcribe_cleanup
  \/ run_file_completed
  \/ run_file_error
  \/ run_batch_finished

\* The steps of TranscriptionWorker.run
SingleRun ==
  \/ tw_run_api_key
  \/ tw_run_cp_before_decode
  \/ tw_run_load_audio
  \/ tw_run_cp_after_decode
  \/ tw_run_segment
  \/ tw_run_cp_after_segment
  \/ tw_run_stage_segments
  \/ tw_run_staged
  \/ tw_run_cp_before_dispatch
  \/ tw_run_submit
  \/ tw_run_as_completed
  \/ tw_run_drain
  \/ tw_run_drained
  \/ tw_run_with_exit
  \/ tw_run_assemble
  \/ tw_run_save_output
  \/ tw_run_finished
  \/ tw_run_except

\* The run thread and the pool threads are operating-system threads: each keeps
\* being scheduled while it has a step to take, every decode, VAD and
\* transcription call returns or raises, and a pool thread that is idle takes
\* the next queued work item. cancel() is a user action and need never happen.
SpecFair ==
  /\ Spec
  /\ WF_vars(BatchRun)
  /\ WF_vars(SingleRun)
  /\ WF_vars(worker_start)
  /\ WF_vars(worker_finish)

\* ------------------------------------------- TranscriptionPanel._save_srt
\* sorted(self.segments, key=lambda x: x["index"]): a stable sort on "index"
InsertByIndex(x, s) ==
  LET before == { i \in 1..Len(s) : s[i].index <= x.index }
      n == Cardinality(before)
  IN  SubSeq(s, 1, n) \o << x >> \o SubSeq(s, n + 1, Len(s))

RECURSIVE SortByIndex(_)
SortByIndex(s) ==
  IF s = << >> THEN << >>
  ELSE InsertByIndex(s[Len(s)], SortByIndex(SubSeq(s, 1, Len(s) - 1)))

\* srt.Subtitle(index=seg["index"] + 1, ...) for the sorted segments, then
\* srt.compose(subtitles): the cues in order, renumbered from 1
panel_save_srt(segs) ==
  LET sorted == SortByIndex(segs)
  IN  [ p \in 1..Len(sorted) |->
          [number |-> p, start |-> sorted[p].start, end |-> sorted[p].end,
           text |-> sorted[p].text] ]

\* ------------------------------------------------- the .txt file, by character
\* The transcript and the file are sequences of characters here: a segment
\* text is any short string the client returns, line ends included
Chars == {"a", "\n"}
TextsUpTo(n) == UNION { [1..m -> Chars] : m \in 0..n }
LanguageLabels == { << "e", "n" >>, << "f", "r" >> }

\* " ".join(text for _, text in results)
RECURSIVE JoinChars(_)
JoinChars(s) ==
  IF s = << >> THEN << >>
  ELSE IF Len(s) = 1 THEN s[1][2]
  ELSE s[1][2] \o << " " >> \o JoinChars(Tail(s))

\* f.write(f"{detected_language}\n"); f.write(f"{full_text}\n")
WriteTxt(language, full_text) ==
  language \o << "\n" >> \o full_text \o << "\n" >>

\* The drain loop has ended without failure for a file of one or two segments
InitTxt ==
  /\ kind = "batch"
  /\ input_files = << [dir |-> "a", stem |-> "x", ext |-> "mp3"] >>
  /\ has_key = TRUE
  /\ num_threads = 1
  /\ save_srt = FALSE
  /\ is_cancelled = FALSE
  /\ pc = "txt_assemble"
  /\ file_idx = 0
  /\ exc = NoExc
  /\ duration = 180
  /\ \E n \in 1..MaxSegs :
       /\ wav_list = VadSegments(180, n)
       /\ staged = n
       /\ \E t \in [1..n -> TextsUpTo(MaxTextLen)] :
            seg_results = [ k \in 1..n |-> << k - 1, t[k] >> ]
       /\ languages \in [1..n -> LanguageLabels]
       /\ completed = n
  /\ futures = << >>
  /\ nthreads = 0
  /\ first_batch = {}
  /\ waiter = << >>
  /\ out = NoOut
  /\ results = << >>
  /\ events = << >>
  /\ dirs = {}
  /\ fs = {}
  /\ outputs = {}
  /\ decoded = {0}
  /\ ws_created = {}
  /\ called = {}
  /\ seg_failed = {}
  /\ cancel_at = -1
  /\ cancel_pc = ""
  /\ GuiConstructed

\* results.sort(...); full_text = " ".join(...); detected_language = ...
txt_assemble ==
  /\ pc = "txt_assemble"
  /\ seg_results' = SortByIdx(seg_results)
  /\ out' = [full_text |-> JoinChars(SortByIdx(seg_results)),
             language |-> MostCommon(languages), segments |-> << >>]
  /\ pc' = "txt_save"
  /\ UNCHANGED << gui, config, is_cancelled, file_idx, exc, duration, wav_list, staged,
                  pool, languages, completed, results, events, disk, hist, ghost >>

\* with open(txt_path, "w", encoding="utf-8") as f: the two writes
txt_save ==
  /\ pc = "txt_save"
  /\ outputs' = { [file |-> file_idx, ext |-> "txt",
                   bytes |-> WriteTxt(out.language, out.full_text)] }
  /\ pc' = "txt_saved"
  /\ UNCHANGED << gui, config, is_cancelled, file_idx, exc, locals, results, events,
                  dirs, fs, hist, ghost >>

NextTxt ==
  \/ txt_assemble
  \/ txt_save

SpecTxt == InitTxt /\ [][NextTxt]_vars

\* ===================================== MainWindow and FileTableWidget
\* (src/gui/main_window.py). The window's slots and the user's actions run on
\* the GUI thread; each BatchTranscriptionWorker the window starts is a thread
\* of its own, summarised by the signals run() emits; a signal emitted by a
\* worker is queued to the GUI thread and handled later, in emission order.
\* Labels, the progress values, the selection, the result panel and the Export
\* button are not part of the state.
STATUS_PENDING == "pending"
STATUS_PROCESSING == "processing"
STATUS_DONE == "done"
STATUS_ERROR == "error"

\* Every variable of the worker model above
job ==
  << config, is_cancelled, pc, file_idx, exc, locals, results, events, disk,
     hist, ghost >>

\* A user action as the last thing the GUI thread did
UserAction == [sig |-> "user", w |-> 0, idx |-> -1]

\* The media files the user picks from
UserPaths == { p \in Paths : p.dir = "a" }

\* The paths of one file dialog result or one drop: any order, repeats allowed
PathLists == UNION { [1..n -> UserPaths] : n \in 1..MaxPaths }

\* --------------------------------------------------- FileTableWidget
\* A table that puts new paths in front of the ones it lists
RECURSIVE add_files_in_front(_, _)
add_files_in_front(rows, file_paths) ==
  IF file_paths = << >> THEN rows
  ELSE LET path == Head(file_paths)
           next == IF \E i \in 1..Len(rows) : rows[i].path = path
                     THEN rows
                     ELSE << [path |-> path, status |-> STATUS_PENDING] >> \o rows
       IN  add_files_in_front(next, Tail(file_paths))

\* for path in file_paths:
\*     if not any(f["path"] == path for f in self._files): self._files.append(...)
RECURSIVE add_files(_, _)
add_files(rows, file_paths) ==
  IF file_paths = << >> THEN rows
  ELSE LET path == Head(file_paths)
           next == IF \E i \in 1..Len(rows) : rows[i].path = path
                     THEN rows
                     ELSE Append(rows, [path |-> path, status |-> STATUS_PENDING])
       IN  add_files(next, Tail(file_paths))

\* [f["path"] for f in self._files]
get_all_files(rows) == [ i \in 1..Len(rows) |-> rows[i].path ]

\* if 0 <= index < len(self._files): self._files[index]["status"] = status
set_file_status(rows, index, status) ==
  IF 0 <= index /\ index < Len(rows)
    THEN [rows EXCEPT ![index + 1].status = status]
    ELSE rows

\* for f in self._files: f["status"] = self.STATUS_PENDING
reset_statuses(rows) ==
  [ i \in 1..Len(rows) |-> [path |-> rows[i].path, status |-> STATUS_PENDING] ]

\* ------------------------------------------------ MainWindow: the user
\* _on_files_selected: file_table.add_files (whose files_changed signal runs
\* _on_files_changed), then the populated page is shown and Start is enabled
on_files_selected(file_paths) ==
  /\ files' = add_files(files, file_paths)
  /\ state_stack' = 1
  /\ transcribe_btn' = TRUE
  /\ last_handled' = UserAction
  /\ UNCHANGED << add_btn, add_folder_btn, clear_btn, cancel_btn, progress_bar,
                  worker, batch_worker, workers, inbox, job >>

\* The file dialog, opened from the drop zone's Browse Files button or from the
\* table's Add Files button
browse_files ==
  /\ state_stack = 0 \/ add_btn
  /\ \E file_paths \in PathLists : on_files_selected(file_paths)

\* The folder dialog: _scan_folder_for_media lists each file of the folder once
browse_folder ==
  /\ state_stack = 0 \/ add_folder_btn
  /\ \E n \in 1..MaxPaths : \E file_paths \in NoDupSeqs(UserPaths, n) :
       on_files_selected(file_paths)

\* DropZone.dropEvent: file_dropped is connected to _on_files_selected; the
\* drop zone is the page shown while the table is empty
DropZone_dropEvent ==
  /\ state_stack = 0
  /\ \E file_paths \in PathLists : on_files_selected(file_paths)

\* _on_files_changed(files): the value it gives transcribe_btn.setEnabled
on_files_changed_enabled(count) == count > 0

\* FileTableWidget.dropEvent: add_files, whose files_changed signal runs
\* MainWindow._on_files_changed
FileTableWidget_dropEvent ==
  /\ state_stack = 1
  /\ \E file_paths \in PathLists :
       files' = add_files(files, file_paths)
  /\ transcribe_btn' = on_files_changed_enabled(Len(files'))
  /\ state_stack' = IF Len(files') = 0 THEN 0 ELSE state_stack
  /\ last_handled' = UserAction
  /\ UNCHANGED << add_btn, add_folder_btn, clear_btn, cancel_btn, progress_bar,
                  worker, batch_worker, workers, inbox, job >>

\* FileTableWidget.clear, from the Clear All button: files_changed([]) runs
\* _on_files_changed
clear ==
  /\ state_stack = 1
  /\ clear_btn
  /\ files' = << >>
  /\ transcribe_btn' = on_files_changed_enabled(0)
  /\ state_stack' = 0
  /\ last_handled' = UserAction
  /\ UNCHANGED << add_btn, add_folder_btn, clear_btn, cancel_btn, progress_bar,
                  worker, batch_worker, workers, inbox, job >>

\* BatchTranscriptionWorker.__init__ and start()
NewWorker(file_paths) ==
  [input_files |-> file_paths, file_idx |-> 0, pc |-> "loop", is_cancelled |-> FALSE]

\* _start_transcription, from the Start Transcription button, and
\* _start_batch_transcription
start_transcription ==
  /\ transcribe_btn
  /\ last_handled' = UserAction
  /\ IF files = << >> \/ ~ has_key
       THEN UNCHANGED << files, buttons, batch_worker, workers >>
       ELSE /\ Len(workers) < MaxWorkers
            /\ files' = reset_statuses(files)
            /\ transcribe_btn' = FALSE
            /\ add_btn' = FALSE
            /\ add_folder_btn' = FALSE
            /\ clear_btn' = FALSE
            /\ cancel_btn' = TRUE
            /\ progress_bar' = TRUE
            /\ workers' = Append(workers, NewWorker(get_all_files(files)))
            /\ batch_worker' = Len(workers) + 1
  /\ UNCHANGED << state_stack, worker, inbox, job >>

\* QThread.isRunning(): from start() until the thread has finished
isRunning(w) == workers[w].pc # "finished"

\* _cancel_transcription, from the Stop button:
\* if self.batch_worker and self.batch_worker.isRunning(): self.batch_worker.cancel()
cancel_transcription ==
  /\ cancel_btn
  /\ workers' = IF batch_worker # 0 /\ isRunning(batch_worker)
                  THEN [workers EXCEPT ![batch_worker].is_cancelled = TRUE]
                  ELSE workers
  /\ last_handled' = UserAction
  /\ UNCHANGED << files, state_stack, buttons, worker, batch_worker, inbox, job >>

\* ------------------------------- BatchTranscriptionWorker.run, as a thread
Signal(sig, w, idx) == [sig |-> sig, w |-> w, idx |-> idx]

\* if self._is_cancelled: break; self.file_started.emit(file_idx, filename)
bw_run_loop ==
  \E w \in 1..Len(workers) :
    /\ workers[w].pc = "loop"
    /\ IF workers[w].is_cancelled \/ workers[w].file_idx >= Len(workers[w].input_files)
         THEN /\ workers' = [workers EXCEPT ![w].pc = "finish"]
              /\ inbox' = inbox
         ELSE /\ Len(inbox) < MaxInbox
              /\ workers' = [workers EXCEPT ![w].pc = "process"]
              /\ inbox' = Append(inbox, Signal("file_started", w, workers[w].file_idx))
    /\ UNCHANGED << files, state_stack, buttons, worker, batch_worker,
                    last_handled, job >>

\* _process_single_file returns or raises: file_completed or file_error, then
\* batch_progress
bw_run_file ==
  \E w \in 1..Len(workers) :
    /\ workers[w].pc = "process"
    /\ Len(inbox) + 2 <= MaxInbox
    /\ \E outcome \in {"file_completed", "file_error"} :
         inbox' = inbox \o << Signal(outcome, w, workers[w].file_idx),
                              Signal("batch_progress", w, workers[w].file_idx + 1) >>
    /\ workers' = [workers EXCEPT ![w].pc = "loop",
                                  ![w].file_idx = workers[w].file_idx + 1]
    /\ UNCHANGED << files, state_stack, buttons, worker, batch_worker,
                    last_handled, job >>

\* self.batch_finished.emit(results): run() returns
bw_run_batch_finished ==
  \E w \in 1..Len(workers) :
    /\ workers[w].pc = "finish"
    /\ Len(inbox) < MaxInbox
    /\ inbox' = Append(inbox, Signal("batch_finished", w, -1))
    /\ workers' = [workers EXCEPT ![w].pc = "returned"]
    /\ UNCHANGED << files, state_stack, buttons, worker, batch_worker,
                    last_handled, job >>

\* QThread emits finished once run() has returned
bw_finished ==
  \E w \in 1..Len(workers) :
    /\ workers[w].pc = "returned"
    /\ Len(inbox) < MaxInbox
    /\ inbox' = Append(inbox, Signal("finished", w, -1))
    /\ workers' = [workers EXCEPT ![w].pc = "finished"]
    /\ UNCHANGED << files, state_stack, buttons, worker, batch_worker,
                    last_handled, job >>

\* --------------------------------------------- MainWindow: the slots
\* The GUI thread takes the oldest queued signal and runs the slot connected
\* to it
Deliver(sig) ==
  /\ inbox # << >>
  /\ Head(inbox).sig = sig
  /\ inbox' = Tail(inbox)
  /\ last_handled' = Head(inbox)

on_batch_file_started ==
  /\ Deliver("file_started")
  /\ files' = set_file_status(files, Head(inbox).idx, STATUS_PROCESSING)
  /\ UNCHANGED << state_stack, buttons, worker, batch_worker, workers, job >>

on_batch_file_completed ==
  /\ Deliver("file_completed")
  /\ files' = set_file_status(files, Head(inbox).idx, STATUS_DONE)
  /\ UNCHANGED << state_stack, buttons, worker, batch_worker, workers, job >>

on_batch_file_error ==
  /\ Deliver("file_error")
  /\ files' = set_file_status(files, Head(inbox).idx, STATUS_ERROR)
  /\ UNCHANGED << state_stack, buttons, worker, batch_worker, workers, job >>

\* _on_batch_progress sets the two labels
on_batch_progress ==
  /\ Deliver("batch_progress")
  /\ UNCHANGED << files, state_stack, buttons, worker, batch_worker, workers, job >>

\* _on_batch_finished sets the two labels and the Export button
on_batch_finished ==
  /\ Deliver("batch_finished")
  /\ UNCHANGED << files, state_stack, buttons, worker, batch_worker, workers, job >>

\* A slot that leaves the worker references in place
on_worker_finished_keeping_references ==
  /\ Deliver("finished")
  /\ transcribe_btn' = TRUE
  /\ add_btn' = TRUE
  /\ add_folder_btn' = TRUE
  /\ clear_btn' = TRUE
  /\ cancel_btn' = FALSE
  /\ progress_bar' = FALSE
  /\ UNCHANGED << files, state_stack, worker, batch_worker, workers, job >>

\* _on_worker_finished, connected to the finished signal of every worker
on_worker_finished ==
  /\ Deliver("finished")
  /\ transcribe_btn' = TRUE
  /\ add_btn' = TRUE
  /\ add_folder_btn' = TRUE
  /\ clear_btn' = TRUE
  /\ cancel_btn' = FALSE
  /\ progress_bar' = FALSE
  /\ worker' = 0
  /\ batch_worker' = 0
  /\ UNCHANGED << files, state_stack, workers, job >>

\* ------------------------------------------------------------------ GUI
\* The window as constructed; the worker model above is not running
InitGui ==
  /\ GuiConstructed
  /\ kind = "batch"
  /\ input_files = << >>
  /\ has_key \in BOOLEAN
  /\ num_threads = 1
  /\ save_srt = FALSE
  /\ is_cancelled = FALSE
  /\ pc = "gui"
  /\ file_idx = 0
  /\ exc = NoExc
  /\ duration = 0
  /\ wav_list = << >>
  /\ staged = 0
  /\ futures = << >>
  /\ nthreads = 0
  /\ first_batch = {}
  /\ waiter = << >>
  /\ seg_results = << >>
  /\ languages = << >>
  /\ completed = 0
  /\ out = NoOut
  /\ results = << >>
  /\ events = << >>
  /\ dirs = {}
  /\ fs = {}
  /\ outputs = {}
  /\ decoded = {}
  /\ ws_created = {}
  /\ called = {}
  /\ seg_failed = {}
  /\ cancel_at = -1
  /\ cancel_pc = ""

UserActions ==
  \/ browse_files
  \/ browse_folder
  \/ DropZone_dropEvent
  \/ FileTableWidget_dropEvent
  \/ clear
  \/ start_transcription
  \/ cancel_transcription

WorkerThreads ==
  \/ bw_run_loop
  \/ bw_run_file
  \/ bw_run_batch_finished
  \/ bw_finished

Slots ==
  \/ on_batch_file_started
  \/ on_batch_file_completed
  \/ on_batch_file_error
  \/ on_batch_progress
  \/ on_batch_finished
  \/ on_worker_finished

NextGui ==
  \/ browse_files
  \/ browse_folder
  \/ DropZone_dropEvent
  \/ FileTableWidget_dropEvent
  \/ clear
  \/ start_transcription
  \/ cancel_transcription
  \/ bw_run_loop
  \/ bw_run_file
  \/ bw_run_batch_finished
  \/ bw_finished
  \/ on_batch_file_started
  \/ on_batch_file_completed
  \/ on_batch_file_error
  \/ on_batch_progress
  \/ on_batch_finished
  \/ on_worker_finished

SpecGui == InitGui /\ [][NextGui]_vars

\* The Qt event loop of the GUI thread delivers every queued signal, and a
\* worker thread keeps running until run() has returned; the user need not act
SpecGuiFair ==
  /\ SpecGui
  /\ WF_vars(Slots)
  /\ WF_vars(WorkerThreads)

\* ================================================================ claims
Terminal == {"file_completed", "file_error"}
Emitted(sig, i) ==
  \E p \in 1..Len(events) : events[p].sig = sig /\ events[p].idx = i
Files == 0..(total_files - 1)
AllSucceeded ==
  /\ futures # << >>
  /\ \A k \in 1..Len(futures) : futures[k].st = "done"

\* The texts of the first n futures, in segment order, one space between them
RECURSIVE IndexOrderText(_, _)
IndexOrderText(f, n) ==
  IF n = 0 THEN ""
  ELSE IF n = 1 THEN f[1].text
  ELSE IndexOrderText(f, n - 1) \o " " \o f[n].text

\* The transcript of a file of n segments: "t0 t1 ... t(n-1)"
RECURSIVE ExpectedText(_)
ExpectedText(n) ==
  IF n = 0 THEN ""
  ELSE IF n = 1 THEN SegText(0)
  ELSE ExpectedText(n - 1) \o " " \o SegText(n - 1)

\* C1: when every segment task of a file succeeded, the assembled full text
\* is the segment texts joined by one space in ascending segment index,
\* whatever order the drain loop received them in; so is the text carried by
\* file_completed and, with no failed segment, by finished_transcription.
C1_IndexOrder ==
  /\ (pc \in {"save", "cleanup", "completed", "tw_save", "tw_cleanup"} /\ AllSucceeded)
       => out.full_text = IndexOrderText(futures, Len(futures))
  /\ \A p \in 1..Len(events) :
       ( \/ events[p].sig = "file_completed"
         \/ (events[p].sig = "finished_transcription" /\ seg_failed = {}) )
       => events[p].full_text = ExpectedText(Len(events[p].segments))

\* Two segments drained in the order 1, 0 and assembled as "t0 t1"
C1_Witness ==
  /\ pc \in {"save", "tw_save"}
  /\ Len(futures) = 2
  /\ AllSucceeded
  /\ futures[1].language = "en" /\ futures[2].language = "fr"
  /\ languages = << "fr", "en" >>
  /\ out.full_text = "t0 t1"

InProgress ==
  { i \in Files : Emitted("file_started", i)
                   /\ ~ \E t \in Terminal : Emitted(t, i) }

\* C2: file_started(i) is emitted only after file_completed or file_error was
\* emitted for file i-1, and at most one file of the batch is started and
\* not yet terminal.
C2_Sequential ==
  kind = "batch" =>
    /\ \A p \in 1..Len(events) :
         (events[p].sig = "file_started" /\ events[p].idx > 0)
         => \E q \in 1..(p - 1) :
              events[q].sig \in Terminal /\ events[q].idx = events[p].idx - 1
    /\ Cardinality(InProgress) <= 1

C2_Witness ==
  /\ kind = "batch"
  /\ Emitted("file_started", 1)
  /\ Emitted("file_error", 0)

\* C3 (as claimed): when a file of the batch has reached its terminal
\* outcome, its workspace directory does not exist.
C3_WorkspaceRemoved ==
  (kind = "batch" /\ pc = "loop" /\ file_idx >= 1)
    => input_files[file_idx].stem \notin dirs

FailedFile(i) == \E k \in 0..(MaxSegs - 1) : << i, k >> \in seg_failed

\* C4: a batch file with a failed segment task never gets file_completed and
\* no output file; once it is terminal, file_error was emitted for it and
\* its recorded result has an error, empty full_text and no segments.
C4_FailedFile ==
  kind = "batch" =>
    \A i \in Files : FailedFile(i) =>
      /\ ~ Emitted("file_completed", i)
      /\ \A o \in outputs : o.file # i
      /\ (file_idx > i =>
           /\ Emitted("file_error", i)
           /\ results[i + 1].error # NoExc
           /\ results[i + 1].full_text = ""
           /\ results[i + 1].segments = << >>)

\* Segment 0 of file 0 was transcribed and drained, segment 1 failed
C4_Witness ==
  /\ kind = "batch"
  /\ ~ is_cancelled
  /\ file_idx >= 1
  /\ << 0, 1 >> \in seg_failed
  /\ \E p \in 1..Len(events) :
       events[p] = [sig |-> "file_progress", idx |-> 0, pct |-> ProgressPct(1, 2)]
  /\ results[1].error = SegError(1)

\* C5 (as claimed): in TranscriptionWorker, once a segment task has failed,
\* finished_transcription is never emitted and no output file is written.
C5_NoPartialTranscript ==
  (kind = "single" /\ seg_failed # {}) =>
    /\ \A p \in 1..Len(events) : events[p].sig # "finished_transcription"
    /\ outputs = {}

\* C6: once cancel() was called while run() was in file k, no later file is
\* started, decoded, staged or transcribed, and the loop does not advance
\* beyond file k.
C6_NoLaterFile ==
  (kind = "batch" /\ is_cancelled) =>
    /\ \A j \in Files : j > cancel_at =>
         /\ ~ Emitted("file_started", j)
         /\ j \notin decoded
         /\ j \notin ws_created
         /\ \A c \in called : c[1] # j
    /\ file_idx <= cancel_at + 1

\* cancel() during the dispatch of file 0 of two; the run has ended
C6_Witness ==
  /\ kind = "batch"
  /\ is_cancelled
  /\ cancel_at = 0
  /\ cancel_pc = "dispatch"
  /\ total_files = 2
  /\ pc = "done"
  /\ ~ Emitted("file_started", 1)

\* C7 (as claimed): a file stopped by cancellation gets no file_error event
\* and no result entry carrying an error.
C7_CancelledIsNotError ==
  kind = "batch" =>
    /\ \A p \in 1..Len(events) :
         events[p].sig = "file_error" => events[p].error # Cancelled
    /\ \A r \in 1..Len(results) : results[r].error # Cancelled

\* C8 (as claimed): when the processing of a file returns because a
\* checkpoint observed cancellation, the file's workspace directory does
\* not exist.
C8_CancelledWorkspaceRemoved ==
  (kind = "batch" /\ pc = "except" /\ exc = Cancelled) => save_dir \notin dirs

CancelledBeforeAnyStart ==
  /\ is_cancelled
  /\ \/ cancel_at = -1
     \/ cancel_at = 0 /\ cancel_pc = "starting"

\* C9: when cancel() was called before any file_started was emitted, the
\* batch makes no transcription call and creates no workspace directory.
C9_NoWorkWhenCancelledFirst ==
  (kind = "batch" /\ CancelledBeforeAnyStart) =>
    /\ called = {}
    /\ ws_created = {}
    /\ dirs = {}

C9_Witness ==
  /\ kind = "batch"
  /\ CancelledBeforeAnyStart
  /\ total_files = MaxFiles
  /\ has_key
  /\ pc = "done"

\* C10: the number of transcription calls in flight never exceeds
\* num_threads.
C10_BoundedInFlight == Cardinality(Running) <= num_threads

\* The cap binds: num_threads calls in flight and a segment still queued
C10_Witness ==
  /\ Cardinality(Running) = num_threads
  /\ Queued # {}

\* The language labels of the transcribed segments of the current file, in
\* segment order
IndexOrderLanguages ==
  LET done == SelectSeq(futures, LAMBDA f : f.st = "done")
  IN  [ k \in 1..Len(done) |-> done[k].language ]

\* C11 (as claimed): the dominant language of a file is the most frequent
\* segment label and, among tied labels, the one that occurs first in the
\* segment-ordered sequence of labels, whatever order the tasks completed in.
C11_DominantLanguage ==
  pc \in {"save", "cleanup", "completed", "tw_save", "tw_cleanup"}
    => out.language = MostCommon(IndexOrderLanguages)

\* C12 (as claimed): a batch worker without a credential emits no
\* file_started and processes no file.
C12_CredentialAbortsJob ==
  (kind = "batch" /\ ~ has_key) =>
    /\ NumStarted = 0
    /\ \A p \in 1..Len(events) : events[p].sig \notin Terminal

FileScoped(e) == e.type \in {"DecodeError", "VadLoadError", "IOError", "RemoteError"}

\* C13: a decode, VAD-load, staging or output IO, or segment transcription
\* error of file i is recorded as the outcome of file i with its cause, and
\* unless the batch is cancelled the loop goes on to start file i+1; a batch
\* that ended without cancellation has started every file.
C13_ErrorScopedToFile ==
  kind = "batch" =>
    /\ \A p \in 1..Len(events) :
         (events[p].sig = "file_error" /\ FileScoped(events[p].error)) =>
           LET i == events[p].idx
           IN  /\ Len(results) > i
               /\ results[i + 1].file_idx = i
               /\ results[i + 1].error = events[p].error
               /\ results[i + 1].full_text = ""
               /\ ( (~ is_cancelled /\ i + 1 < total_files) =>
                      \/ Emitted("file_started", i + 1)
                      \/ (file_idx = i + 1 /\ pc \in {"loop", "started"}) )
    /\ (pc = "done" /\ ~ is_cancelled) =>
         \A j \in Files : Emitted("file_started", j)

\* File 0 failed with a file-scoped error and file 1 was completed after it
C13_Witness ==
  /\ kind = "batch"
  /\ ~ is_cancelled
  /\ pc = "done"
  /\ \E p \in 1..Len(events) :
       events[p].sig = "file_error" /\ events[p].idx = 0 /\ FileScoped(events[p].error)
  /\ Emitted("file_completed", 1)

\* C14 (as claimed): the list carried by batch_finished has one outcome per
\* input file, in file order, also for the files never started.
C14_OneOutcomePerFile ==
  \A p \in 1..Len(events) :
    events[p].sig = "batch_finished" =>
      /\ Len(events[p].results) = total_files
      /\ \A r \in 1..Len(events[p].results) : events[p].results[r].file_idx = r - 1

CountEmitted(sig) == Cardinality({ i \in Files : Emitted(sig, i) })

FailureSeen ==
  \/ (kind = "batch" /\ pc \in {"with_exit", "except"} /\ exc.type = "RemoteError")
  \/ (kind = "single" /\ futures # << >>
        /\ \E p \in 1..Len(events) :
             events[p].sig = "error" /\ events[p].error.type = "RemoteError")

\* The `with` block of the current file has been left
PoolClosed ==
  /\ futures # << >>
  /\ pc \in {"assemble", "save", "cleanup", "completed", "except",
             "tw_assemble", "tw_save", "tw_cleanup", "tw_except", "tw_done"}

\* C16: a failed segment cancels none of its sibling tasks: while cancel() has
\* not been called, no task of the file is cancelled, and when the pool is
\* closed every segment of the file has had its transcription call made,
\* also those still queued when the drain loop met the failure.
C16_SiblingsStillCalled ==
  (FailureSeen /\ ~ is_cancelled) =>
    /\ \A k \in 1..Len(futures) : futures[k].st # "cancelled"
    /\ (PoolClosed =>
          \A k \in 1..Len(futures) :
            /\ futures[k].st \in {"done", "failed"}
            /\ << file_idx, k - 1 >> \in called)
    /\ \A k \in Queued : << file_idx, k - 1 >> \notin called

\* One pool thread, segment 0 failed and was met first, segment 1 was still
\* transcribed before the file was reported
C16_Witness ==
  /\ kind = "batch"
  /\ ~ is_cancelled
  /\ pc = "except"
  /\ exc = SegError(0)
  /\ num_threads = 1
  /\ Len(futures) = 2
  /\ futures[2].st = "done"
  /\ << file_idx, 1 >> \in called

\* C17: in the batch worker, when a segment of file i failed, file_error(i)
\* is emitted only once every segment task of file i is settled, and its
\* cause is the error of the first failed segment the drain loop met: every
\* segment drained before it had succeeded.
C17_FileErrorAfterSettled ==
  kind = "batch" =>
    /\ (pc = "except" /\ exc.type = "RemoteError") =>
         /\ AllSettled
         /\ futures[exc.seg + 1].st = "failed"
         /\ \A r \in 1..Len(seg_results) : futures[seg_results[r][1] + 1].st = "done"
         /\ Len(seg_results) = completed
    /\ \A p \in 1..Len(events) :
         (events[p].sig = "file_error" /\ events[p].error.type = "RemoteError")
           => << events[p].idx, events[p].error.seg >> \in seg_failed

\* Both segments failed, segment 1 was met first and is the cause reported
C17_Witness ==
  /\ kind = "batch"
  /\ pc = "loop"
  /\ << 0, 0 >> \in seg_failed
  /\ << 0, 1 >> \in seg_failed
  /\ \E p \in 1..Len(events) :
       events[p] = [sig |-> "file_error", idx |-> 0, error |-> SegError(1)]

\* The drain loop of the current file has observed cancellation
DrainCancelled ==
  /\ futures # << >>
  /\ \/ (pc \in {"with_exit", "except"} /\ exc = Cancelled)
     \/ (pc = "tw_with_exit" /\ exc = Return)
     \/ (pc = "tw_done" /\ \E k \in 1..Len(futures) : futures[k].st = "cancelled")

\* C18: once the drain loop has observed cancellation, no task is left to
\* start and a task that had not started is never invoked; the calls in
\* flight run to completion, and the `with` block is left as soon as they
\* have returned.
C18_CancelledDrain ==
  /\ \A k \in 1..Len(futures) :
       futures[k].st = "cancelled" => << file_idx, k - 1 >> \notin called
  /\ DrainCancelled =>
       /\ Queued = {}
       /\ \A k \in 1..Len(futures) :
            futures[k].st \in {"running", "done", "failed"}
              <=> << file_idx, k - 1 >> \in called
       /\ (Running = {} => AllSettled)
       /\ (pc \in {"except", "tw_done"} => Running = {})

\* One pool thread: segment 0 was transcribed, segment 1 was still queued
\* when the drain loop observed cancellation and was never invoked
C18_Witness ==
  /\ DrainCancelled
  /\ pc \in {"except", "tw_done"}
  /\ Len(futures) = 2
  /\ futures[1].st = "done"
  /\ futures[2].st = "cancelled"
  /\ called = {<< 0, 0 >>}

\* C19: once set, the cancellation flag stays set, and only cancel() writes it.
C19_FlagNeverResets ==
  [][ /\ (is_cancelled => is_cancelled')
      /\ (is_cancelled' # is_cancelled => cancel) ]_vars

\* The flag was set during the dispatch of file 0 and is still set at the end
C19_Witness ==
  /\ is_cancelled
  /\ cancel_pc = "dispatch"
  /\ pc \in {"done", "tw_done"}

\* C20: when cancel() was called before the before-dispatch checkpoint of a
\* file has run (before or after decode, after segmentation, during staging),
\* no transcription call is made and no output file is written for that file.
C20_NoDispatchAfterCancel ==
  is_cancelled =>
    \A j \in 0..(MaxFiles - 1) :
      ( \/ j > cancel_at
        \/ (j = cancel_at /\ cancel_pc \in {"starting", "prepare"}) ) =>
        /\ \A c \in called : c[1] # j
        /\ \A o \in outputs : o.file # j

\* cancel() during the staging of file 0: only the before-dispatch checkpoint
\* is left to observe it
C20_Witness ==
  /\ is_cancelled
  /\ cancel_at = 0
  /\ cancel_pc = "prepare"
  /\ 0 \in ws_created
  /\ pc \in {"done", "tw_done"}

\* The signals that change the state of a file in the file table
FileSignals == {"file_started", "file_progress", "file_completed", "file_error"}
EventsOf(sigs, i) ==
  { p \in 1..Len(events) : events[p].sig \in sigs /\ events[p].idx = i }

\* C21: in a batch run, file_started(i) is emitted at most once, a terminal
\* event of file i comes after its file_started, file i gets at most one
\* terminal event and exactly one once the loop has left it, and no signal
\* of file i follows its terminal event.
C21_FileLifecycle ==
  kind = "batch" =>
    \A i \in Files :
      /\ Cardinality(EventsOf({"file_started"}, i)) <= 1
      /\ Cardinality(EventsOf(Terminal, i)) <= 1
      /\ (file_idx > i => /\ Cardinality(EventsOf({"file_started"}, i)) = 1
                          /\ Cardinality(EventsOf(Terminal, i)) = 1)
      /\ \A p \in EventsOf(Terminal, i) :
           /\ \E q \in EventsOf({"file_started"}, i) : q < p
           /\ \A q \in EventsOf(FileSignals, i) : q <= p

\* Two files went through the loop: file 0 ended in error, file 1 completed
C21_Witness ==
  /\ kind = "batch"
  /\ pc = "done"
  /\ total_files = 2
  /\ Emitted("file_error", 0)
  /\ Emitted("file_completed", 1)

\* C22: file_completed(i) is emitted only when file i was decoded, every one
\* of its segments was transcribed without failure, and its .txt, and its
\* .srt when enabled, holding the emitted result are written; a file whose
\* output write failed gets file_error and no file_completed.
C22_CompletedAfterOutput ==
  kind = "batch" =>
    \A p \in 1..Len(events) :
      /\ events[p].sig = "file_completed" =>
           LET i == events[p].idx
               n == Len(events[p].segments)
           IN  /\ i \in decoded
               /\ n >= 1
               /\ \A k \in 0..(n - 1) :
                    << i, k >> \in called /\ << i, k >> \notin seg_failed
               /\ TxtFile(i, events[p]) \in outputs
               /\ (save_srt => SrtFile(i, events[p]) \in outputs)
      /\ (events[p].sig = "file_error" /\ events[p].error = Raise("IOError"))
           => ~ Emitted("file_completed", events[p].idx)

\* A two-segment file completed with its .txt and .srt written
C22_Witness ==
  /\ kind = "batch"
  /\ save_srt
  /\ \E p \in 1..Len(events) :
       /\ events[p].sig = "file_completed"
       /\ Len(events[p].segments) = 2
       /\ SrtFile(events[p].idx, events[p]) \in outputs

\* The VAD path was entered for the current file: its first progress signal
VadEntered ==
  \E p \in 1..Len(events) :
    \/ events[p] = FileProgress(15)
    \/ (kind = "single" /\ events[p] = Progress(15))

\* C23: after segmentation, an audio shorter than 180 seconds has exactly one
\* segment spanning [0, duration) and the VAD path was not entered; for 180
\* seconds or more the VAD path was entered, and only there can the VAD
\* model fail to load.
C23_ShortAudioOneSegment ==
  /\ pc \in {"cp_after_segment", "stage", "tw_cp_after_segment", "tw_stage"} =>
       IF duration < 180
         THEN wav_list = << << 0, duration >> >> /\ ~ VadEntered
         ELSE VadEntered /\ Len(wav_list) >= 1
  /\ (pc \in {"except", "tw_except"} /\ exc = Raise("VadLoadError")) =>
       (duration >= 180 /\ VadEntered)

\* An audio of 179 seconds staged as one segment (0, 179)
C23_Witness ==
  /\ pc \in {"stage", "tw_stage"}
  /\ duration = 179
  /\ wav_list = << << 0, 179 >> >>

\* The cues c are one per segment of the current file, in segment order,
\* numbered from 1, each with the text and the times of its segment
OneCuePerSegment(c) ==
  /\ Len(c) = Len(futures)
  /\ \A p \in 1..Len(c) :
       /\ p <= Len(futures)
       /\ c[p].number = p
       /\ c[p].text = futures[p].text
       /\ c[p].start = wav_list[p][1]
       /\ c[p].end = wav_list[p][2]

\* C24 (as claimed): with SRT export enabled, the .srt a worker saves and the
\* one the panel saves from the same segment list have one cue per segment
\* of the file, in index order, cue number = segment index + 1.
C24_SrtCues ==
  (save_srt /\ pc \in {"cleanup", "tw_cleanup"}) =>
    /\ \E o \in outputs : o.file = file_idx /\ o.ext = "srt"
    /\ \A o \in outputs :
         (o.file = file_idx /\ o.ext = "srt") => OneCuePerSegment(o.content)
    /\ OneCuePerSegment(panel_save_srt(out.segments))

\* The lines of a file: the characters before each line end, and what
\* follows the last one if anything does
RECURSIVE ReadLines(_)
ReadLines(b) ==
  LET nl == { i \in 1..Len(b) : b[i] = "\n" }
  IN  IF b = << >> THEN << >>
      ELSE IF nl = {} THEN << b >>
      ELSE LET i == CHOOSE j \in nl : \A m \in nl : j <= m
           IN  << SubSeq(b, 1, i - 1) >> \o ReadLines(SubSeq(b, i + 1, Len(b)))

\* C25 (as claimed): the .txt file read back has exactly two lines, the
\* dominant language and the full text, for every transcript assembled.
C25_TxtRoundTrip ==
  \A o \in outputs :
    (pc = "txt_saved" /\ o.ext = "txt")
      => ReadLines(o.bytes) = << out.language, out.full_text >>

\* A step leaves every started or settled task as it is, or moves a running
\* call to its outcome; the tasks of a file go away only with the file
TasksOnlyAdvance ==
  \/ futures = << >>
  \/ futures' = << >>
  \/ /\ Len(futures') = Len(futures)
     /\ \A k \in 1..Len(futures) :
          /\ futures[k].st \in Settled => futures'[k] = futures[k]
          /\ futures[k].st = "running" => futures'[k].st \in {"running", "done", "failed"}

\* C26: one task is submitted per staged segment; a segment is invoked when
\* its task starts and a started or settled task never goes back to the
\* queue, so no segment is invoked twice and a failed segment or file is not
\* retried; the assembly holds each segment's result at most once.
C26_OneTaskPerSegment ==
  /\ [] /\ (futures # << >> => Len(futures) = staged /\ staged = Len(wav_list))
        /\ \A k \in Queued : << file_idx, k - 1 >> \notin called
        /\ Len(seg_results) <= Len(futures)
        /\ \A a, b \in 1..Len(seg_results) :
             a # b => seg_results[a][1] # seg_results[b][1]
        /\ \A a \in 1..Len(seg_results) :
             futures[seg_results[a][1] + 1].st = "done"
  /\ [][TasksOnlyAdvance /\ file_idx' >= file_idx]_vars

\* Segment 0 of file 0 failed; both segments were invoked and the loop moved on
C26_Witness ==
  /\ kind = "batch"
  /\ pc = "started"
  /\ file_idx = 1
  /\ << 0, 0 >> \in seg_failed
  /\ { c \in called : c[1] = 0 } = { << 0, 0 >>, << 0, 1 >> }

\* File i was staged: the progress signal that follows the staging loop
Staged(i) ==
  \E p \in 1..Len(events) :
    events[p] = [sig |-> "file_progress", idx |-> i, pct |-> 25]

\* C27 (as claimed): two distinct files of a batch are staged in distinct
\* workspace directories, and a file starts staging with no workspace of
\* another file in its place.
C27_WorkspacePerFile ==
  kind = "batch" =>
    /\ \A i, j \in Files :
         (i < j /\ Staged(i) /\ Staged(j))
           => input_files[i + 1].stem # input_files[j + 1].stem
    /\ (pc = "stage" /\ staged = 0) => save_dir \notin dirs

FileProgressEvents(i) == EventsOf({"file_progress"}, i)

\* C28: every file_progress percent is within 0..100, the percents of a file
\* never decrease in emission order, and 100 is emitted for a file only
\* after its output was written with no failed segment and no file_error.
C28_ProgressMonotone ==
  kind = "batch" =>
    \A i \in Files :
      \A p \in FileProgressEvents(i) :
        /\ events[p].pct \in 0..100
        /\ \A q \in FileProgressEvents(i) :
             p < q => events[p].pct <= events[q].pct
        /\ events[p].pct = 100 =>
             /\ \E o \in outputs : o.file = i /\ o.ext = "txt"
             /\ ~ FailedFile(i)
             /\ ~ Emitted("file_error", i)

\* A two-segment file went 25, 60, 95, 95, 100
C28_Witness ==
  /\ kind = "batch"
  /\ \E p \in 1..Len(events) :
       events[p] = [sig |-> "file_progress", idx |-> 0, pct |-> 60]
  /\ \E p \in 1..Len(events) :
       events[p] = [sig |-> "file_progress", idx |-> 0, pct |-> 100]

SegmentCompleted == SelectSeq(events, LAMBDA e : e.sig = "segment_completed")

\* C29: in TranscriptionWorker, the segment_completed events are, in order,
\* the successful segments as the drain loop received them, each emitted in
\* the step that received it, with the index, text and times of that
\* segment; a failed segment has none.
C29_SegmentCompleted ==
  kind = "single" =>
    LET sc == SegmentCompleted
    IN  /\ Len(sc) = completed
        /\ Len(sc) = Len(seg_results)
        /\ pc \in {"tw_drain", "tw_with_exit"} =>
             seg_results = [ p \in 1..Len(sc) |-> << sc[p].idx, sc[p].text >> ]
        /\ \A p \in 1..Len(sc) :
             /\ futures[sc[p].idx + 1].st = "done"
             /\ sc[p].text = futures[sc[p].idx + 1].text
             /\ sc[p].start = wav_list[sc[p].idx + 1][1]
             /\ sc[p].end = wav_list[sc[p].idx + 1][2]
             /\ \A q \in 1..Len(sc) : p # q => sc[p].idx # sc[q].idx

\* Segment 1 was received and reported before segment 0
C29_Witness ==
  /\ kind = "single"
  /\ Len(SegmentCompleted) = 2
  /\ SegmentCompleted[1].idx = 1
  /\ SegmentCompleted[2].idx = 0

\* C30 (as claimed): every entry of the assembled segment list has the
\* index, the start and the end of the segment whose text it carries.
C30_SegmentEntries ==
  pc \in {"save", "cleanup", "completed", "tw_save", "tw_cleanup"} =>
    \A p \in 1..Len(out.segments) :
      LET e == out.segments[p]
      IN  /\ futures[e.index + 1].st = "done"
          /\ e.text = futures[e.index + 1].text
          /\ e.start = wav_list[e.index + 1][1]
          /\ e.end = wav_list[e.index + 1][2]

\* How many times a signal was emitted
Occurrences(sig) == Cardinality({ p \in 1..Len(events) : events[p].sig = sig })

\* C31: under fair scheduling, with every decode, VAD and transcription call
\* returning or raising, BatchTranscriptionWorker.run emits batch_finished on
\* every path (all files done, some failed, cancelled at any point): the run
\* always reaches its end, batch_finished is emitted exactly once, only at the
\* end, and it is the last event.
C31_BatchFinishedOnceLast ==
  /\ (kind = "batch") ~> (pc = "done")
  /\ [](kind = "batch" =>
          /\ Occurrences("batch_finished") = (IF pc = "done" THEN 1 ELSE 0)
          /\ pc = "done" => events[Len(events)].sig = "batch_finished")

\* A batch cancelled in its second file has finished: one file completed, one
\* failed, and batch_finished closes the event sequence
C31_Witness ==
  /\ kind = "batch"
  /\ pc = "done"
  /\ is_cancelled
  /\ cancel_at = 1
  /\ Emitted("file_completed", 0)
  /\ Emitted("file_error", 1)
  /\ events[Len(events)].sig = "batch_finished"

\* The staged file the transcription call of future k reads
SegmentFile(k) == [dir |-> save_dir, name |-> wav_name, idx |-> k - 1]

\* C32 (as claimed): no staged segment file is deleted while a transcription
\* call reading it is in flight: the segment file of every running call is
\* still in the workspace, also after the drain loop has observed cancellation.
C32_NoDeleteInFlight ==
  \A k \in Running : SegmentFile(k) \in fs

\* The signal an action emits first, if it emits any
EmitsFirst(sigs) ==
  /\ Len(events') > Len(events)
  /\ events'[Len(events) + 1].sig \in sigs

\* C33: in the batch worker, at the moment a file's terminal event
\* (file_completed or file_error) is emitted, and at the moment the next
\* file is started, no transcription call is in flight and none is left to
\* start; this holds on success, on a segment failure and on cancellation
\* during the drain.
C33_NoCallInFlightAtOutcome ==
  [][ (kind = "batch" /\ EmitsFirst({"file_completed", "file_error", "file_started"}))
        => (Running = {} /\ Queued = {}) ]_vars

\* File 0 failed on a segment after both its segments were called, file 1 was
\* started, cancelled during its drain and reported
C33_Witness ==
  /\ kind = "batch"
  /\ { << 0, 0 >>, << 0, 1 >> } \subseteq called
  /\ \E s \in 0..1 : << 0, s >> \in seg_failed
  /\ Emitted("file_error", 0)
  /\ Emitted("file_started", 1)
  /\ cancel_at = 1
  /\ cancel_pc = "dispatch"
  /\ << 1, 0 >> \in called
  /\ \E p \in 1..Len(events) :
       events[p] = [sig |-> "file_error", idx |-> 1, error |-> Cancelled]

\* The positions of the batch_progress events, and the k-th of them
ProgressPositions == { p \in 1..Len(events) : events[p].sig = "batch_progress" }
NthProgress(k) ==
  events[CHOOSE p \in ProgressPositions :
           Cardinality({ q \in ProgressPositions : q <= p }) = k]

\* C35: in a batch of N files the k-th batch_progress event carries (k, N);
\* one is emitted per processed file, succeeded or failed, and never more than
\* N; when the batch has finished, the count has reached N unless cancel()
\* came before the last file was entered.
C35_BatchProgress ==
  kind = "batch" =>
    /\ \A k \in 1..Cardinality(ProgressPositions) :
         /\ NthProgress(k).completed = k
         /\ NthProgress(k).total = total_files
    /\ Cardinality(ProgressPositions) = Len(results)
    /\ Cardinality(ProgressPositions) =
         CountEmitted("file_completed") + CountEmitted("file_error")
    /\ Cardinality(ProgressPositions) <= total_files
    /\ pc = "done" =>
         ((Cardinality(ProgressPositions) = total_files)
            <=> ~ (is_cancelled /\ cancel_at < total_files - 1))

\* Two files, the first failed and the second succeeded: (1, 2) then (2, 2)
C35_Witness ==
  /\ kind = "batch"
  /\ pc = "done"
  /\ total_files = 2
  /\ Emitted("file_error", 0)
  /\ Emitted("file_completed", 1)
  /\ Cardinality(ProgressPositions) = 2
  /\ NthProgress(1).completed = 1
  /\ NthProgress(2).completed = 2

\* TranscriptionWorker.run reads the cancellation flag as set: at one of its
\* four checkpoints, or in the body of the drain loop
tw_ObservesCancel ==
  /\ kind = "single"
  /\ is_cancelled
  /\ \/ /\ pc \in {"tw_cp_before_decode", "tw_cp_after_decode",
                   "tw_cp_after_segment", "tw_cp_before_dispatch"}
        /\ pc' # pc
     \/ /\ pc = "tw_drain"
        /\ (first_batch' # first_batch \/ Len(waiter') < Len(waiter))

RunningWorkers == { w \in 1..Len(workers) : isRunning(w) }

\* C34 (as claimed): at most one transcription worker runs at any time, and
\* while one runs the Start Transcription button is disabled, whatever the
\* user does (dialogs, drops on the drop zone or on the table, cancelling).
C34_SingleWorker ==
  /\ Cardinality(RunningWorkers) <= 1
  /\ RunningWorkers # {} => ~ transcribe_btn

\* C36 (as claimed): right after batch_finished has been handled, no file of
\* the table is in the processing (Running) status: every file the batch
\* started is done or error, every other file is pending, cancelled or not.
C36_NoRunningAfterBatchFinished ==
  last_handled.sig = "batch_finished" =>
    \A i \in 1..Len(files) :
      /\ files[i].status # STATUS_PROCESSING
      /\ i <= workers[last_handled.w].file_idx
           => files[i].status \in {STATUS_DONE, STATUS_ERROR}
      /\ i > workers[last_handled.w].file_idx
           => files[i].status = STATUS_PENDING

\* The finished signal of a worker thread is queued and not yet handled
FinishedPending == \E k \in 1..Len(inbox) : inbox[k].sig = "finished"

\* The idle state of the window
Idle ==
  /\ transcribe_btn
  /\ add_btn
  /\ add_folder_btn
  /\ clear_btn
  /\ ~ cancel_btn
  /\ ~ progress_bar
  /\ worker = 0
  /\ batch_worker = 0

\* C38: whenever a worker thread has finished, on any path, the GUI
\* eventually handles its finished signal, and having handled it is in the
\* idle state: Start, Add Files, Add Folder and Clear All enabled, Stop and
\* the progress bar hidden, the worker references cleared.
C38_BackToIdle ==
  /\ FinishedPending ~> (last_handled.sig = "finished" /\ Idle)
  /\ [](last_handled.sig = "finished" => Idle)

\* A batch that was cancelled has finished and the window is idle again
C38_Witness ==
  /\ last_handled.sig = "finished"
  /\ workers[last_handled.w].is_cancelled
  /\ workers[last_handled.w].file_idx = 1
  /\ Len(workers[last_handled.w].input_files) = 2
  /\ Idle

\* C39: whatever sequence of add_files, clear and reset_statuses the table
\* has gone through, no path is listed twice; a step other than clear keeps
\* every listed path at its index (paths are only appended); so the indexes
\* of the worker the window refers to designate the files it was given.
C39_StableIndexes ==
  /\ [](\A i, j \in 1..Len(files) : i # j => files[i].path # files[j].path)
  /\ [][ clear \/ /\ Len(files') >= Len(files)
                  /\ \A i \in 1..Len(files) : files'[i].path = files[i].path ]_vars
  /\ [](batch_worker # 0 =>
          \A i \in 1..Len(workers[batch_worker].input_files) :
            /\ i <= Len(files)
            /\ files[i].path = workers[batch_worker].input_files[i])

\* While a worker given one file runs, a drop on the table has added a second
\* file behind the first, after a drop of the first file alone changed nothing
C39_Witness ==
  /\ batch_worker # 0
  /\ isRunning(batch_worker)
  /\ Len(workers[batch_worker].input_files) = 1
  /\ Len(files) = 2
  /\ files[1].path = workers[batch_worker].input_files[1]
  /\ files[1].status = STATUS_PROCESSING
  /\ files[2].status = STATUS_PENDING
====
